---- MODULE Spec2Model ----
(***************************************************************************)
(* PDF-Editor: the page collection (App.tsx) and one annotation editing    *)
(* session (components/AnnotationEditor.tsx).                              *)
(*                                                                         *)
(* Every React state cell is a variable of the same name.  A handler runs  *)
(* to completion on the state of the last render; the state updates it     *)
(* queues are applied together, and the font/bold useEffect that a changed *)
(* dependency triggers runs before the next event, so it is part of the    *)
(* action of the handler that triggered it.                                *)
(*                                                                         *)
(* Coordinates are page-intrinsic units, modelled as integers: a pointer   *)
(* position is the value getPointerPos(e) returns.                         *)
(***************************************************************************)
EXTENDS Integers, Sequences, FiniteSets, TLC

VARIABLES
    \* App.tsx
    pages,               \* PDFPageData[]
    selectedPageIds,
    isProcessing,
    editorPage,          \* {page, highResUrl} | null : the page the editor is mounted on
    opening,             \* the page an openEditor call in flight is rendering | null
    sources,             \* the ids of the registered SourcePDFs
    draggedPageIndex,
    batches,             \* the processFiles calls in flight, in the order they started
    \* AnnotationEditor.tsx
    annotations,         \* the session's annotation list
    tool,
    color,
    fontSize,
    isBold,
    isDrawing,
    dragStartPos,
    currentAnnotation,   \* the provisional shape | null
    selectedId,
    interactionMode,
    resizeHandle,
    interactionStartPos,
    initialAnnState,     \* the snapshot taken at pointer-down | null
    \* bookkeeping of the environment (no React state)
    nextId,              \* crypto.randomUUID(): ids handed out so far + 1
    ptr,                 \* position of the last pointer event on the canvas
    gesture,             \* the gesture the last pointer-down opened, if still open
    track,               \* where pointer arithmetic alone puts the annotation last moved
    upload,              \* the image the file picker handed over and that is being decoded | null
    rendered,            \* the box last laid out for an annotation, and where
    exportOp,            \* the exportPDF call in flight: the pages and sources it was given | null
    copyOp,              \* the copyToClipboard call in flight | null
    notice,              \* the text of the last alert()
    downloaded,          \* the document last handed to download()
    clipboard,           \* the image last written to the clipboard
    handed               \* the buffers handed to parsing calls so far: where, and whether a copy

loadVars == <<sources, draggedPageIndex, batches>>
appVars  == <<pages, selectedPageIds, isProcessing, editorPage, opening, loadVars>>
toolVars == <<tool, color, fontSize, isBold>>
drawVars == <<isDrawing, dragStartPos, currentAnnotation>>
modeVars == <<interactionMode, resizeHandle, interactionStartPos, initialAnnState>>
ioVars   == <<exportOp, copyOp, notice, downloaded, clipboard>>
envVars  == <<nextId, ptr, gesture, track, upload, rendered, ioVars, handed>>
vars == <<pages, selectedPageIds, isProcessing, editorPage, opening, annotations, tool, color, fontSize, isBold, isDrawing,
          dragStartPos, currentAnnotation, selectedId, interactionMode, resizeHandle,
          interactionStartPos, initialAnnState, nextId, ptr, gesture, track,
          sources, draggedPageIndex, batches, upload, rendered,
          exportOp, copyOp, notice, downloaded, clipboard, handed>>

-----------------------------------------------------------------------------
(* Bounds of the model *)

\* ids crypto.randomUUID() may hand out in one behaviour
MaxIds == 3
\* completed move gestures counted in one run on the same annotation
MaxTracked == 2
\* calls of processFiles in one behaviour
MaxBatches == 2

(* Program constants *)

MinDrawSize == 5
DefaultFontSize == 32

-----------------------------------------------------------------------------
(* Values *)

NoId == 0                       \* selectedId === null
NullAnn == [type |-> "null"]    \* currentAnnotation / initialAnnState === null
NullPage == [id |-> 0]          \* editorPage === null
UndefinedPage == [id |-> -1]    \* undefined, stored as an element of pages
NoHandle == "null"               \* resizeHandle === null
NoUpload == [state |-> "none"]   \* no file picker open and no image file being read
NoRender == [by |-> "none"]      \* nothing laid out yet
NoExport == [at |-> "none"]      \* no exportPDF call in flight
NoCopy == [at |-> "none"]        \* no copyToClipboard call in flight
NoNotice == "none"               \* no alert() shown yet
NoDocument == [saved |-> FALSE]  \* download() not called yet
NoImage == [page |-> 0]          \* nothing written to the clipboard yet

\* the calls that parse the bytes of a source, and what each is given: a copy made with
\* slice(0), or the buffer that is kept in (or about to be stored in) the registry
ToGetDocument == [call |-> "loadPDF: pdfjsLib.getDocument", copied |-> TRUE]
ToRenderHighResPage == [call |-> "renderHighResPage: pdfjsLib.getDocument", copied |-> TRUE]
ToPDFDocumentLoad == [call |-> "generateFinalPDF: PDFLib.PDFDocument.load", copied |-> FALSE]
NoIndex == 0                     \* draggedPageIndex === null (pages are numbered from 1)

Pos(px, py) == [x |-> px, y |-> py]

Abs(n) == IF n < 0 THEN -n ELSE n

\* { ...r, ...upd }
Spread(r, upd) ==
    [f \in DOMAIN r \cup DOMAIN upd |-> IF f \in DOMAIN upd THEN upd[f] ELSE r[f]]

\* r.f || 0, for an optional numeric field
OrZero(r, f) == IF f \in DOMAIN r THEN r[f] ELSE 0

\* list.map(fn)
Map(list, fn(_)) == [i \in 1..Len(list) |-> fn(list[i])]

\* list.filter(a => a.id !== id)
RECURSIVE WithoutId(_, _)
\* a removal of the oldest annotation
WithoutId_First(list, id) == Tail(list)

WithoutId(list, id) ==
    IF list = <<>> THEN <<>>
    ELSE IF Head(list).id = id THEN WithoutId(Tail(list), id)
    ELSE <<Head(list)>> \o WithoutId(Tail(list), id)

Ids(list) == {list[i].id : i \in 1..Len(list)}

\* list.find(a => a.id === id), for an id of the list
Find(list, id) == list[CHOOSE i \in 1..Len(list) : list[i].id = id /\ \A j \in 1..(i-1) : list[j].id # id]

FontWeightOf(bold) == IF bold THEN "bold" ELSE "normal"

-----------------------------------------------------------------------------
(* Pure parts of the handlers *)

\* a box made positive without moving its corner
NormalizeBox_AbsOnly(ann) ==
    [x |-> ann.x, y |-> ann.y,
     width |-> Abs(OrZero(ann, "width")), height |-> Abs(OrZero(ann, "height"))]

\* renderAnnotation: "Normalize box logic" (the stored annotation is not touched)
NormalizeBox(ann) ==
    LET boxX == ann.x
        boxY == ann.y
        boxW == OrZero(ann, "width")
        boxH == OrZero(ann, "height")
        nx == IF boxW < 0 THEN boxX + boxW ELSE boxX
        nw == IF boxW < 0 THEN Abs(boxW) ELSE boxW
        ny == IF boxH < 0 THEN boxY + boxH ELSE boxY
        nh == IF boxH < 0 THEN Abs(boxH) ELSE boxH
    IN  [x |-> nx, y |-> ny, width |-> nw, height |-> nh]

\* the same logic in the page thumbnails of the grid
ThumbnailBox(ann) ==
    LET boxX == ann.x
        boxY == ann.y
        boxW == OrZero(ann, "width")
        boxH == OrZero(ann, "height")
    IN  [x |-> IF boxW < 0 THEN boxX + boxW ELSE boxX,
         y |-> IF boxH < 0 THEN boxY + boxH ELSE boxY,
         width |-> IF boxW < 0 THEN Abs(boxW) ELSE boxW,
         height |-> IF boxH < 0 THEN Abs(boxH) ELSE boxH]

\* the same logic where generateFinalPDF draws the annotations of a page
ExportBox(ann) ==
    LET boxX == ann.x
        boxY == ann.y
        boxW == OrZero(ann, "width")
        boxH == OrZero(ann, "height")
    IN  [x |-> IF boxW < 0 THEN boxX + boxW ELSE boxX,
         y |-> IF boxH < 0 THEN boxY + boxH ELSE boxY,
         width |-> IF boxW < 0 THEN Abs(boxW) ELSE boxW,
         height |-> IF boxH < 0 THEN Abs(boxH) ELSE boxH]

\* a selection that a pointer-down on the empty canvas leaves alone
SelectionKept(sel) == sel

\* handleMouseDown with the select tool: setSelectedId(null)
SelectionAfterCanvasDown(sel) == NoId

\* a threshold that asks for both extents
BigEnough_Both(cur) ==
    /\ Abs(OrZero(cur, "width")) > MinDrawSize
    /\ Abs(OrZero(cur, "height")) > MinDrawSize

\* handleMouseUp: the provisional shape is worth keeping
BigEnough(cur) ==
    \/ Abs(OrZero(cur, "width")) > MinDrawSize
    \/ Abs(OrZero(cur, "height")) > MinDrawSize

\* handleMouseDown: the provisional shape of a drawing tool
ProvisionalShape(t, pos, col) ==
    [type |-> t, x |-> pos.x, y |-> pos.y, width |-> 0, height |-> 0,
     color |-> IF t = "highlight" THEN "#ffff00" ELSE col]

\* a provisional shape that keeps its extents non-negative
Stretched_Abs(cur, start, pos) ==
    Spread(cur, [width |-> Abs(pos.x - start.x), height |-> Abs(pos.y - start.y)])

\* handleMouseMove, "Handling New Drawing"
Stretched(cur, start, pos) ==
    Spread(cur, [width |-> pos.x - start.x, height |-> pos.y - start.y])

\* handleMouseUp: the annotation committed from the provisional shape
CommittedShape(id, cur, start, col) ==
    [id |-> id, type |-> cur.type, x |-> start.x, y |-> start.y,
     width |-> cur.width, height |-> cur.height,
     color |-> IF cur.color = "" THEN col ELSE cur.color]

\* handleMouseDown: the annotation of the text tool
NewText(id, pos, txt, col, fs, bold) ==
    [id |-> id, type |-> "text", x |-> pos.x, y |-> pos.y, text |-> txt,
     color |-> col, fontSize |-> fs, fontWeight |-> FontWeightOf(bold)]

\* a move that adds the delta to the annotation as the last pointer-move left it
Moved_Incremental(ann, snap, start, pos) ==
    Spread(ann, [x |-> ann.x + (pos.x - start.x), y |-> ann.y + (pos.y - start.y)])

\* handleMouseMove, "Handling Move": the moved annotation
Moved(ann, snap, start, pos) ==
    Spread(ann, [x |-> snap.x + (pos.x - start.x), y |-> snap.y + (pos.y - start.y)])

\* resizeHandle.includes(letter), for the handles nw, ne, sw, se
Includes(handle, letter) ==
    \/ letter = "n" /\ handle \in {"nw", "ne"}
    \/ letter = "s" /\ handle \in {"sw", "se"}
    \/ letter = "w" /\ handle \in {"nw", "sw"}
    \/ letter = "e" /\ handle \in {"ne", "se"}

\* a resize that stops at extent 0 instead of inverting the box
Resized_Clamped(ann, snap, handle, start, pos) ==
    LET dx == pos.x - start.x
        dy == pos.y - start.y
        w0 == OrZero(snap, "width")
        h0 == OrZero(snap, "height")
        newW == (IF Includes(handle, "e") THEN w0 + dx ELSE w0)
                - (IF Includes(handle, "w") THEN dx ELSE 0)
        newX == IF Includes(handle, "w") THEN snap.x + dx ELSE snap.x
        newH == (IF Includes(handle, "s") THEN h0 + dy ELSE h0)
                - (IF Includes(handle, "n") THEN dy ELSE 0)
        newY == IF Includes(handle, "n") THEN snap.y + dy ELSE snap.y
    IN  Spread(ann, [x |-> newX, y |-> newY,
                     width |-> IF newW < 0 THEN 0 ELSE newW,
                     height |-> IF newH < 0 THEN 0 ELSE newH])

\* handleMouseMove, "Handling Resize": the resized annotation
Resized(ann, snap, handle, start, pos) ==
    LET dx == pos.x - start.x
        dy == pos.y - start.y
        w0 == OrZero(snap, "width")
        h0 == OrZero(snap, "height")
        newW == (IF Includes(handle, "e") THEN w0 + dx ELSE w0)
                - (IF Includes(handle, "w") THEN dx ELSE 0)
        newX == IF Includes(handle, "w") THEN snap.x + dx ELSE snap.x
        newH == (IF Includes(handle, "s") THEN h0 + dy ELSE h0)
                - (IF Includes(handle, "n") THEN dy ELSE 0)
        newY == IF Includes(handle, "n") THEN snap.y + dy ELSE snap.y
    IN  Spread(ann, [x |-> newX, y |-> newY, width |-> newW, height |-> newH])

\* a font sync that writes to the selected annotation of any kind
FontSynced_AnyKind(ann, sel, fs, bold) ==
    IF ann.id = sel
    THEN Spread(ann, [fontSize |-> fs, fontWeight |-> FontWeightOf(bold)])
    ELSE ann

\* useEffect [fontSize, isBold, selectedId]: what it writes to one annotation
FontSynced(ann, sel, fs, bold) ==
    IF ann.id = sel /\ ann.type = "text"
    THEN Spread(ann, [fontSize |-> fs, fontWeight |-> FontWeightOf(bold)])
    ELSE ann

\* the useEffect, run when one of its dependencies changed in this render
AfterRender(list, sel, fs, bold) ==
    IF <<fs, bold, sel>> # <<fontSize, isBold, selectedId>> /\ sel # NoId
    THEN [i \in 1..Len(list) |-> FontSynced(list[i], sel, fs, bold)]
    ELSE list

\* an applyColor that writes the color to every annotation
Recolored_All(ann, sel, newColor) == Spread(ann, [color |-> newColor])

\* applyColor: what it writes to one annotation
Recolored(ann, sel, newColor) ==
    IF ann.id = sel THEN Spread(ann, [color |-> newColor]) ELSE ann

\* a toolbar that takes the color of every selected annotation
ColorAfterSelect_AnyKind(ann, col) == ann.color

\* handleAnnotationMouseDown: the toolbar color after selecting ann
ColorAfterSelect(ann, col) == IF ann.type # "highlight" THEN ann.color ELSE col

\* handleAnnotationMouseDown: setFontSize(ann.fontSize || 32)
FontSizeAfterSelect(ann, fs) ==
    IF ann.type = "text"
    THEN (IF OrZero(ann, "fontSize") = 0 THEN DefaultFontSize ELSE ann.fontSize)
    ELSE fs

\* handleAnnotationMouseDown: setIsBold(ann.fontWeight === 'bold')
BoldAfterSelect(ann, bold) ==
    IF ann.type = "text"
    THEN ("fontWeight" \in DOMAIN ann /\ ann.fontWeight = "bold")
    ELSE bold

\* a bound of the model: a moved or resized annotation keeps both corners on the grid
\* spanned by the pointer positions
OnGrid(ann, points) ==
    LET xs == {p.x : p \in points}
        ys == {p.y : p \in points}
    IN  /\ ann.x \in xs /\ ann.x + OrZero(ann, "width") \in xs
        /\ ann.y \in ys /\ ann.y + OrZero(ann, "height") \in ys

-----------------------------------------------------------------------------
(* The environment: which events the page can deliver.                     *)
(*                                                                         *)
(* mousedown is dispatched for every mouse button, so a pointer-down may   *)
(* follow a pointer-down with no pointer-up in between (a second button    *)
(* pressed during a drag).  The toolbar and the header lie outside the     *)
(* canvas: the pointer reaches them only through the canvas' mouseleave,   *)
(* which runs handleMouseUp, and the delete button is clicked by a         *)
(* mousedown and a mouseup; so their handlers run between gestures.        *)

NoGesture == [kind |-> "none"]

\* the gesture a pointer-down at pos opens, or "broken" when one is open already
Opened(kind, pos) ==
    IF gesture.kind = "none" THEN [kind |-> kind, start |-> pos] ELSE [kind |-> "broken"]

BetweenGestures == gesture.kind = "none"

(* The position pointer arithmetic gives an annotation over a run of move gestures:  *)
(* its position at the first pointer-down plus the net displacement (last pointer   *)
(* position minus pointer-down position) of each gesture completed since; n of them *)
(* displaced it (counted up to MaxTracked).  Anything else that may reposition it   *)
(* ends the run.                                                                    *)
NoTrack == [id |-> NoId]

TrackAtDown(id, ann) ==
    IF gesture.kind # "none" THEN NoTrack
    ELSE IF track.id = id THEN track
    ELSE [id |-> id, x |-> ann.x, y |-> ann.y, n |-> 0]

TrackAtUp ==
    IF gesture.kind = "move" /\ track.id # NoId
    THEN [id |-> track.id,
          x |-> track.x + (ptr.x - gesture.start.x),
          y |-> track.y + (ptr.y - gesture.start.y),
          n |-> IF ptr # gesture.start /\ track.n < MaxTracked
                THEN track.n + 1 ELSE track.n]
    ELSE IF gesture.kind \in {"click", "draw"} THEN track
    ELSE NoTrack

Mounted == editorPage # NullPage

\* the loading overlay is laid over the editor
EditorReachable == Mounted /\ ~isProcessing

\* fileInputRef.current?.click(): the file picker of the hidden input is open
Picker == [state |-> "picker"]

PickerOpen == upload = Picker

DrawingTools == {"rect", "highlight", "arrow"}

\* prompt() returned null
NoText == <<"null">>

\* String.prototype.trim on a text given as the sequence of its characters
RECURSIVE TrimStart(_)
TrimStart(txt) ==
    IF txt # <<>> /\ Head(txt) = " " THEN TrimStart(Tail(txt)) ELSE txt

RECURSIVE TrimEnd(_)
TrimEnd(txt) ==
    IF txt # <<>> /\ txt[Len(txt)] = " " THEN TrimEnd(SubSeq(txt, 1, Len(txt) - 1)) ELSE txt

Trim(txt) == TrimEnd(TrimStart(txt))

\* a test that takes every non-empty input for a text
IsBlank_EmptyOnly(txt) == txt = NoText \/ txt = <<>>

\* !(text && text.trim() !== "")
IsBlank(txt) == txt = NoText \/ txt = <<>> \/ Trim(txt) = <<>>

-----------------------------------------------------------------------------
(* AnnotationEditor.tsx: the handlers *)

\* onMouseDown of the canvas layer.  The file picker is a modal dialog, and the image tool
\* is clicked again only after the file picked before it was read.  With the select tool an annotation takes the
\* pointer-down that lands on it, and a moved or resized annotation stays under the
\* pointer, so the canvas gets a select-tool pointer-down only with no such gesture.
handleMouseDown(pos, txt) ==
    /\ EditorReachable /\ ~PickerOpen
    /\ tool = "select" => interactionMode = "none"
    /\ tool = "image" /\ interactionMode = "none" => upload = NoUpload
    /\ tool # "select" /\ interactionMode = "none" => nextId <= MaxIds
    /\ ptr' = pos
    /\ gesture' = IF tool \in DrawingTools
                  THEN Spread(Opened("draw", pos),
                              IF gesture.kind = "none"
                              THEN [list |-> annotations, sel |-> selectedId]
                              ELSE [kind |-> "broken"])
                  ELSE IF tool = "text" /\ interactionMode = "none"
                  THEN Spread(Opened("click", pos), [txt |-> txt])
                  ELSE Opened("click", pos)
    /\ track' = IF gesture.kind = "none" THEN track ELSE NoTrack
    /\ upload' = IF tool = "image" /\ interactionMode = "none" THEN Picker ELSE upload
    /\ UNCHANGED <<appVars, toolVars, modeVars, rendered, ioVars, handed>>
    /\ IF interactionMode \in {"resizing", "moving"}
       THEN UNCHANGED <<annotations, selectedId, drawVars, nextId>>
       ELSE IF tool = "select"
       THEN /\ selectedId' = SelectionAfterCanvasDown(selectedId)
            /\ UNCHANGED <<annotations, drawVars, nextId>>
       ELSE /\ dragStartPos' = pos
            /\ IF tool = "text"
               THEN /\ isDrawing' = FALSE
                    /\ UNCHANGED currentAnnotation
                    /\ IF ~IsBlank(txt)
                       THEN /\ annotations' =
                                 AfterRender(Append(annotations,
                                     NewText(nextId, pos, txt, color, fontSize, isBold)),
                                     nextId, fontSize, isBold)
                            /\ selectedId' = nextId
                            /\ nextId' = nextId + 1
                       ELSE UNCHANGED <<annotations, selectedId, nextId>>
               ELSE IF tool = "image"
               THEN /\ isDrawing' = FALSE
                    /\ UNCHANGED <<currentAnnotation, annotations, selectedId, nextId>>
               ELSE /\ isDrawing' = TRUE
                    /\ currentAnnotation' = ProvisionalShape(tool, pos, color)
                    /\ UNCHANGED <<annotations, selectedId, nextId>>

\* onMouseMove of the canvas layer
handleMouseMove(pos, window) ==
    /\ EditorReachable /\ ~PickerOpen
    /\ ptr' = pos
    /\ UNCHANGED <<appVars, toolVars, modeVars, selectedId, isDrawing, dragStartPos, upload, rendered, ioVars, handed,
                   nextId, gesture, track>>
    /\ IF interactionMode = "moving" /\ selectedId # NoId /\ initialAnnState # NullAnn
       THEN /\ annotations' = [i \in 1..Len(annotations) |->
                    IF annotations[i].id = selectedId
                    THEN Moved(annotations[i], initialAnnState, interactionStartPos, pos)
                    ELSE annotations[i]]
            /\ \A i \in 1..Len(annotations) : OnGrid(annotations'[i], window)
            /\ UNCHANGED currentAnnotation
       ELSE IF interactionMode = "resizing" /\ selectedId # NoId
               /\ initialAnnState # NullAnn /\ resizeHandle # NoHandle
       THEN /\ annotations' = [i \in 1..Len(annotations) |->
                    IF annotations[i].id # selectedId THEN annotations[i]
                    ELSE Resized(annotations[i], initialAnnState, resizeHandle,
                                 interactionStartPos, pos)]
            /\ \A i \in 1..Len(annotations) : OnGrid(annotations'[i], window)
            /\ UNCHANGED currentAnnotation
       ELSE IF ~isDrawing \/ currentAnnotation = NullAnn \/ tool \in {"text", "image"}
       THEN UNCHANGED <<annotations, currentAnnotation>>
       ELSE /\ currentAnnotation' = Stretched(currentAnnotation, dragStartPos, pos)
            /\ UNCHANGED annotations

\* onMouseUp and onMouseLeave of the canvas layer
handleMouseUp ==
    /\ EditorReachable /\ ~PickerOpen
    /\ gesture' = NoGesture
    /\ interactionMode' = "none"
    /\ resizeHandle' = NoHandle
    /\ initialAnnState' = NullAnn
    /\ ptr' = Pos(0, 0)
    /\ track' = TrackAtUp
    /\ UNCHANGED <<appVars, toolVars, interactionStartPos, dragStartPos, upload, rendered, ioVars, handed>>
    /\ IF ~isDrawing
       THEN UNCHANGED <<annotations, selectedId, isDrawing, currentAnnotation, nextId>>
       ELSE /\ isDrawing' = FALSE
            /\ currentAnnotation' = NullAnn
            /\ IF currentAnnotation # NullAnn /\ BigEnough(currentAnnotation)
               THEN /\ nextId <= MaxIds
                    /\ annotations' =
                         AfterRender(Append(annotations,
                             CommittedShape(nextId, currentAnnotation, dragStartPos, color)),
                             nextId, fontSize, isBold)
                    /\ selectedId' = nextId
                    /\ nextId' = nextId + 1
               ELSE UNCHANGED <<annotations, selectedId, nextId>>

\* onMouseDown of an annotation's element.  The element takes pointer events with the
\* select tool only; the wide transparent line of an arrow takes them with every tool.
handleAnnotationMouseDown(id, pos) ==
    /\ EditorReachable /\ ~PickerOpen
    /\ id \in Ids(annotations)
    /\ tool = "select" \/ Find(annotations, id).type = "arrow"
    /\ ptr' = pos
    /\ gesture' = Opened(IF tool = "select" THEN "move" ELSE "click", pos)
    /\ track' = IF tool = "select" THEN TrackAtDown(id, Find(annotations, id))
                ELSE IF gesture.kind = "none" THEN track ELSE NoTrack
    /\ UNCHANGED <<appVars, tool, drawVars, resizeHandle, nextId, upload, rendered, ioVars, handed>>
    /\ IF tool # "select"
       THEN UNCHANGED <<annotations, selectedId, color, fontSize, isBold,
                        interactionMode, interactionStartPos, initialAnnState>>
       ELSE LET ann == Find(annotations, id)
                fs == FontSizeAfterSelect(ann, fontSize)
                bold == BoldAfterSelect(ann, isBold)
            IN  /\ selectedId' = id
                /\ interactionMode' = "moving"
                /\ interactionStartPos' = pos
                /\ initialAnnState' = ann
                /\ fontSize' = fs
                /\ isBold' = bold
                /\ color' = ColorAfterSelect(ann, color)
                /\ annotations' = AfterRender(annotations, id, fs, bold)

\* onMouseDown of a corner handle: the selected annotation shows four, unless it is text
handleResizeStart(handle, id, pos) ==
    /\ EditorReachable /\ ~PickerOpen
    /\ id \in Ids(annotations)
    /\ id = selectedId
    /\ Find(annotations, id).type # "text"
    /\ ptr' = pos
    /\ gesture' = Spread(Opened("resize", pos),
                         IF gesture.kind = "none"
                         THEN [handle |-> handle, snap |-> Find(annotations, id)]
                         ELSE [kind |-> "broken"])
    /\ track' = NoTrack
    /\ selectedId' = id
    /\ interactionMode' = "resizing"
    /\ resizeHandle' = handle
    /\ interactionStartPos' = pos
    /\ initialAnnState' = Find(annotations, id)
    /\ UNCHANGED <<appVars, toolVars, drawVars, annotations, nextId, upload, rendered, ioVars, handed>>

\* ToolButton onClick
setTool(t) ==
    /\ EditorReachable /\ BetweenGestures
    /\ tool' = t
    /\ UNCHANGED <<appVars, annotations, color, fontSize, isBold, drawVars, selectedId,
                   modeVars, envVars>>

\* a color swatch's onClick
applyColor(newColor) ==
    /\ EditorReachable /\ BetweenGestures
    /\ color' = newColor
    /\ annotations' = IF selectedId # NoId
                      THEN [i \in 1..Len(annotations) |->
                               Recolored(annotations[i], selectedId, newColor)]
                      ELSE annotations
    /\ UNCHANGED <<appVars, tool, fontSize, isBold, drawVars, selectedId, modeVars, envVars>>

\* the font controls take the pointer with the text tool or with a text annotation selected
FontControlsEnabled ==
    \/ tool = "text"
    \/ selectedId \in Ids(annotations) /\ Find(annotations, selectedId).type = "text"

\* the font size input's onChange
changeFontSize(v) ==
    /\ EditorReachable /\ BetweenGestures /\ FontControlsEnabled
    /\ fontSize' = v
    /\ annotations' = AfterRender(annotations, selectedId, v, isBold)
    /\ UNCHANGED <<appVars, tool, color, isBold, drawVars, selectedId, modeVars, envVars>>

\* the bold button's onClick
toggleBold ==
    /\ EditorReachable /\ BetweenGestures /\ FontControlsEnabled
    /\ isBold' = ~isBold
    /\ annotations' = AfterRender(annotations, selectedId, fontSize, ~isBold)
    /\ UNCHANGED <<appVars, tool, color, fontSize, drawVars, selectedId, modeVars, envVars>>

\* e.target.files?.[0] is undefined
NoFile == [name |-> "none"]

\* onChange of the hidden file input, up to reader.readAsDataURL: the callbacks of this
\* render hold its annotations
handleImageUpload(file) ==
    /\ Mounted /\ PickerOpen
    /\ upload' = IF file = NoFile THEN NoUpload
                 ELSE [state |-> "reading", list |-> annotations, file |-> file]
    /\ UNCHANGED <<appVars, annotations, toolVars, drawVars, selectedId, modeVars,
                   nextId, ptr, gesture, track, rendered, ioVars, handed>>

\* an image placed where the pointer went down
NewImage_AtPointer(id, file) ==
    [id |-> id, type |-> "image", x |-> ptr.x, y |-> ptr.y, width |-> 300,
     height |-> (300 * file.height) \div file.width, color |-> "", imageData |-> file.name]

\* newAnn of img.onload; 300 * (img.height / img.width), for sizes that divide exactly
NewImage(id, file) ==
    [id |-> id, type |-> "image", x |-> 100, y |-> 100, width |-> 300,
     height |-> (300 * file.height) \div file.width, color |-> "", imageData |-> file.name]

\* img.onload, after reader.onload
imgOnload ==
    /\ Mounted /\ upload # NoUpload /\ ~PickerOpen
    /\ nextId <= MaxIds
    /\ annotations' = AfterRender(Append(upload.list, NewImage(nextId, upload.file)),
                                  nextId, fontSize, isBold)
    /\ selectedId' = nextId
    /\ tool' = "select"
    /\ nextId' = nextId + 1
    /\ upload' = NoUpload
    /\ gesture' = IF gesture.kind \in {"none", "click"} THEN gesture ELSE [kind |-> "broken"]
    /\ track' = NoTrack
    /\ UNCHANGED <<appVars, color, fontSize, isBold, drawVars, modeVars, ptr, rendered, ioVars, handed>>

\* the delete button of the selected annotation
deleteAnnotation(id) ==
    /\ EditorReachable /\ BetweenGestures
    /\ id = selectedId /\ id \in Ids(annotations)
    /\ tool = "select"
    /\ annotations' = WithoutId(annotations, id)
    /\ selectedId' = NoId
    /\ track' = IF track.id = id THEN NoTrack ELSE track
    /\ UNCHANGED <<appVars, toolVars, drawVars, modeVars, nextId, ptr, gesture, upload, rendered, ioVars, handed>>

-----------------------------------------------------------------------------
(* App.tsx *)

\* the state of a freshly mounted AnnotationEditor on page p (its useState initial values)
MountOn(p) ==
    /\ annotations' = p.annotations
    /\ tool' = "select"
    /\ color' = "#ef4444"
    /\ fontSize' = DefaultFontSize
    /\ isBold' = FALSE
    /\ isDrawing' = FALSE
    /\ dragStartPos' = Pos(0, 0)
    /\ currentAnnotation' = NullAnn
    /\ selectedId' = NoId
    /\ interactionMode' = "none"
    /\ resizeHandle' = NoHandle
    /\ interactionStartPos' = Pos(0, 0)
    /\ initialAnnState' = NullAnn
    /\ ptr' = Pos(0, 0)
    /\ gesture' = NoGesture
    /\ track' = NoTrack
    /\ UNCHANGED <<rendered, ioVars, handed>>
    /\ upload' = NoUpload

\* the editor is not rendered: its state is gone
Unmount == MountOn([annotations |-> <<>>])

\* rendering the grid throws on a page that is undefined, and React unmounts the app
Crashed == \E i \in 1..Len(pages) : pages[i] = UndefinedPage

\* the grid and the header are covered by the editor and by the loading overlay
GridReachable == ~Mounted /\ ~isProcessing /\ ~Crashed

\* openEditor, up to its await
openEditor(i) ==
    /\ GridReachable
    /\ i \in 1..Len(pages)
    /\ pages[i].sourcePdfId \in sources
    /\ isProcessing' = TRUE
    /\ opening' = pages[i]
    /\ handed' = handed \cup {ToRenderHighResPage}
    /\ UNCHANGED <<pages, selectedPageIds, editorPage, loadVars, annotations, toolVars,
                   drawVars, selectedId, modeVars, nextId, ptr, gesture, track, upload,
                   rendered, ioVars>>

\* openEditor, after renderHighResPage resolved
openEditorDone ==
    /\ opening # NullPage
    /\ editorPage' = opening
    /\ opening' = NullPage
    /\ isProcessing' = FALSE
    /\ IF Mounted
       THEN UNCHANGED <<annotations, toolVars, drawVars, selectedId, modeVars, ptr, gesture,
                        track, upload, rendered, ioVars, handed>>
       ELSE MountOn(opening)
    /\ UNCHANGED <<pages, selectedPageIds, loadVars, nextId>>

\* openEditor, after renderHighResPage rejected: the rejection leaves openEditor, which
\* has no try block, before setEditorPage and setIsProcessing(false)
openEditorFailed ==
    /\ opening # NullPage
    /\ opening' = NullPage
    /\ UNCHANGED <<pages, selectedPageIds, isProcessing, editorPage, loadVars, annotations,
                   toolVars, drawVars, selectedId, modeVars, envVars>>

\* a save that stores every annotation with its box normalized
Saved_Normalized(p, edited, newAnnotations) ==
    IF p.id = edited.id
    THEN Spread(p, [annotations |->
            [i \in 1..Len(newAnnotations) |->
                IF "width" \in DOMAIN newAnnotations[i]
                THEN Spread(newAnnotations[i], NormalizeBox(newAnnotations[i]))
                ELSE newAnnotations[i]]])
    ELSE p

\* a save that writes the session's list to every page
Saved_EveryPage(p, edited, newAnnotations) == Spread(p, [annotations |-> newAnnotations])

\* saveAnnotations: what it stores for one page
Saved(p, edited, newAnnotations) ==
    IF p.id = edited.id THEN Spread(p, [annotations |-> newAnnotations]) ELSE p

\* the editor's save button: onSave(annotations)
saveAnnotations ==
    /\ EditorReachable /\ BetweenGestures
    /\ pages' = [i \in 1..Len(pages) |-> Saved(pages[i], editorPage, annotations)]
    /\ editorPage' = NullPage
    /\ Unmount
    /\ UNCHANGED <<selectedPageIds, isProcessing, opening, loadVars, nextId>>

\* the editor's cancel button: onClose
onClose ==
    /\ EditorReachable /\ BetweenGestures
    /\ editorPage' = NullPage
    /\ Unmount
    /\ UNCHANGED <<pages, selectedPageIds, isProcessing, opening, loadVars, nextId>>

\* the opacity, in percent, with which each target paints an annotation: the div of the
\* editor, the div of the thumbnail, ctx.globalAlpha of the export
EditorAlpha(ann) == IF ann.type = "highlight" THEN 30 ELSE 100
ThumbnailAlpha(ann) == IF ann.type = "highlight" THEN 30 ELSE 100
ExportAlpha(ann) == IF ann.type = "highlight" THEN 40 ELSE 100

\* renderAnnotation lays out the i-th annotation of the editor
renderAnnotation(i) ==
    /\ Mounted
    /\ i \in 1..Len(annotations)
    /\ rendered' = [by |-> "editor", of |-> annotations[i], box |-> NormalizeBox(annotations[i]),
                    alpha |-> EditorAlpha(annotations[i])]
    /\ UNCHANGED <<appVars, annotations, toolVars, drawVars, selectedId, modeVars,
                   nextId, ptr, gesture, track, upload, ioVars, handed>>

\* the grid lays out the i-th annotation on the thumbnail of page p
thumbnailAnnotation(p, i) ==
    /\ ~Mounted
    /\ p \in 1..Len(pages) /\ i \in 1..Len(pages[p].annotations)
    /\ rendered' = [by |-> "thumbnail", of |-> pages[p].annotations[i],
                    box |-> ThumbnailBox(pages[p].annotations[i]),
                    alpha |-> ThumbnailAlpha(pages[p].annotations[i])]
    /\ UNCHANGED <<appVars, annotations, toolVars, drawVars, selectedId, modeVars,
                   nextId, ptr, gesture, track, upload, ioVars, handed>>

\* generateFinalPDF draws the i-th annotation of page p
exportAnnotation(p, i) ==
    /\ GridReachable
    /\ p \in 1..Len(pages) /\ i \in 1..Len(pages[p].annotations)
    /\ rendered' = [by |-> "export", of |-> pages[p].annotations[i],
                    box |-> ExportBox(pages[p].annotations[i]),
                    alpha |-> ExportAlpha(pages[p].annotations[i])]
    /\ UNCHANGED <<appVars, annotations, toolVars, drawVars, selectedId, modeVars,
                   nextId, ptr, gesture, track, upload, ioVars, handed>>

\* onClick of a page card
toggleSelectPage(id) ==
    /\ GridReachable
    /\ id \in Ids(pages)
    /\ selectedPageIds' = IF id \in selectedPageIds
                          THEN selectedPageIds \ {id}
                          ELSE selectedPageIds \cup {id}
    /\ UNCHANGED <<pages, isProcessing, editorPage, opening, loadVars, annotations, toolVars,
                   drawVars, selectedId, modeVars, envVars>>

\* a rotation of every page
Rotated_All(p, selected) == Spread(p, [rotation |-> (p.rotation + 90) % 360])

\* rotateSelected: what it stores for one page
Rotated(p, selected) ==
    IF p.id \in selected THEN Spread(p, [rotation |-> (p.rotation + 90) % 360]) ELSE p

\* the rotate button (disabled with an empty selection)
rotateSelected ==
    /\ GridReachable
    /\ selectedPageIds # {}
    /\ pages' = [i \in 1..Len(pages) |-> Rotated(pages[i], selectedPageIds)]
    /\ UNCHANGED <<selectedPageIds, isProcessing, editorPage, opening, loadVars, annotations,
                   toolVars, drawVars, selectedId, modeVars, envVars>>

\* a filter that keeps the selected pages
WithoutSelected_Inverse(list, selected) == SelectSeq(list, LAMBDA p : p.id \in selected)

\* prevPages.filter(p => !selectedPageIds.has(p.id))
WithoutSelected(list, selected) == SelectSeq(list, LAMBDA p : p.id \notin selected)

\* the delete button (disabled with an empty selection) and the answer to confirm()
deleteSelected(confirmed) ==
    /\ GridReachable
    /\ selectedPageIds # {}
    /\ IF confirmed
       THEN /\ pages' = WithoutSelected(pages, selectedPageIds)
            /\ selectedPageIds' = {}
       ELSE UNCHANGED <<pages, selectedPageIds>>
    /\ UNCHANGED <<isProcessing, editorPage, opening, loadVars, annotations,
                   toolVars, drawVars, selectedId, modeVars, envVars>>

\* onDragStart of the page card at position index (array index + 1)
handlePageDragStart(index) ==
    /\ GridReachable
    /\ index \in 1..Len(pages)
    /\ draggedPageIndex' = index
    /\ UNCHANGED <<pages, selectedPageIds, isProcessing, editorPage, opening, sources, batches,
                   annotations, toolVars, drawVars, selectedId, modeVars, envVars>>

\* newPages.splice(from, 1)
SpliceOut(list, from) == SubSeq(list, 1, from - 1) \o SubSeq(list, from + 1, Len(list))

\* newPages.splice(at, 0, item), for 1 <= at; an index past the end appends
SpliceIn(list, at, item) ==
    IF at > Len(list) THEN Append(list, item)
    ELSE SubSeq(list, 1, at - 1) \o <<item>> \o SubSeq(list, at, Len(list))

\* a drop that exchanges the two pages
Dropped_Swapped(list, from, to) ==
    [i \in 1..Len(list) |-> IF i = from THEN list[to] ELSE IF i = to THEN list[from] ELSE list[i]]

\* handlePageDrop: the list it stores; a dragged index past the end removes nothing
\* and inserts undefined
Dropped(list, from, to) ==
    IF from <= Len(list) THEN SpliceIn(SpliceOut(list, from), to, list[from])
    ELSE SpliceIn(list, to, UndefinedPage)

\* onDrop of the page card at position dropIndex
handlePageDrop(dropIndex) ==
    /\ GridReachable
    /\ dropIndex \in 1..Len(pages)
    /\ draggedPageIndex # NoIndex
    /\ draggedPageIndex # dropIndex
    /\ pages' = Dropped(pages, draggedPageIndex, dropIndex)
    /\ draggedPageIndex' = NoIndex
    /\ UNCHANGED <<selectedPageIds, isProcessing, editorPage, opening, sources, batches,
                   annotations, toolVars, drawVars, selectedId, modeVars, envVars>>

\* a loadPDF that returns the pages it had built when a page failed to rasterize
loadPDF_Partial(file) ==
    [ok |-> TRUE,
     source |-> file.sourceId,
     pages |-> [i \in 1..(IF file.kind = "bad" THEN file.failsAt - 1 ELSE file.numPages) |->
                  [id |-> file.firstPageId + i - 1, sourcePdfId |-> file.sourceId,
                   pageIndex |-> i - 1, rotation |-> 0, annotations |-> <<>>]]]

\* a loadPDF that gives the pages of a file the id of the first one
loadPDF_OneId(file) ==
    IF file.kind = "bad" THEN [ok |-> FALSE]
    ELSE [ok |-> TRUE,
          source |-> file.sourceId,
          pages |-> [i \in 1..file.numPages |->
                       [id |-> file.firstPageId, sourcePdfId |-> file.sourceId,
                        pageIndex |-> i - 1, rotation |-> 0, annotations |-> <<>>]]]

\* a loadPDF whose pages name another document than the source it returns
loadPDF_OtherSource(file) ==
    IF file.kind = "bad" THEN [ok |-> FALSE]
    ELSE [ok |-> TRUE,
          source |-> file.sourceId,
          pages |-> [i \in 1..file.numPages |->
                       [id |-> file.firstPageId + i - 1, sourcePdfId |-> file.sourceId + 1,
                        pageIndex |-> i - 1, rotation |-> 0, annotations |-> <<>>]]]

\* loadPDF: the source and the pages of a file, or a rejection
loadPDF(file) ==
    IF file.kind = "bad" THEN [ok |-> FALSE]
    ELSE [ok |-> TRUE,
          source |-> file.sourceId,
          pages |-> [i \in 1..file.numPages |->
                       [id |-> file.firstPageId + i - 1, sourcePdfId |-> file.sourceId,
                        pageIndex |-> i - 1, rotation |-> 0, annotations |-> <<>>]]]

\* the files handed to the calls so far; a File object is handed over once
Handed == UNION {{batches[b].files[k] : k \in 1..Len(batches[b].files)} : b \in 1..Len(batches)}

\* processFiles, up to its first await: newPages and newSources are copies of the
\* pages and sources of the render the callback belongs to
processFiles(files, isPaste) ==
    /\ files # <<>>
    /\ Len(batches) < MaxBatches
    /\ \A k \in 1..Len(files) : files[k] \notin Handed
    /\ isProcessing' = TRUE
    /\ batches' = Append(batches,
          [files |-> files, isPaste |-> isPaste, newSources |-> sources, newPages |-> pages,
           lastAddedPage |-> NullPage, next |-> 1, at |-> "loadPDF"])
    /\ UNCHANGED <<pages, selectedPageIds, editorPage, opening, sources, draggedPageIndex,
                   annotations, toolVars, drawVars, selectedId, modeVars, envVars>>

\* onChange of the file input of the header
handleFileUpload(files) == GridReachable /\ processFiles(files, FALSE)

\* the paste listener of the window
handlePaste(files) == processFiles(files, TRUE)

\* onDrop of the root element; the editor stops the drops that land on it
handleDropFile(files) == ~Mounted /\ processFiles(files, FALSE)

\* extractedPages put in front of the pages collected so far
Pushed_Front(newPages, extractedPages) == extractedPages \o newPages

\* extractedPages.forEach(p => newPages.push(p))
Pushed(newPages, extractedPages) == newPages \o extractedPages

\* processFiles call b, from the await of loadPDF for its next file to the next await or
\* to the end of the call
loadPDFSettled(b) ==
    /\ b \in 1..Len(batches)
    /\ batches[b].at = "loadPDF"
    /\ LET call == batches[b]
           loaded == loadPDF(call.files[call.next])
           newSources == IF loaded.ok THEN call.newSources \cup {loaded.source}
                         ELSE call.newSources
           newPages == IF loaded.ok THEN Pushed(call.newPages, loaded.pages) ELSE call.newPages
           lastAddedPage == IF loaded.ok /\ Len(loaded.pages) > 0 THEN loaded.pages[1]
                            ELSE call.lastAddedPage
           locals == [newSources |-> newSources, newPages |-> newPages,
                      lastAddedPage |-> lastAddedPage, next |-> call.next + 1]
       IN  IF call.next < Len(call.files)
           THEN /\ batches' = [batches EXCEPT ![b] = Spread(call, locals)]
                /\ UNCHANGED <<pages, sources, isProcessing>>
           ELSE /\ sources' = newSources
                /\ pages' = newPages
                /\ IF call.isPaste /\ lastAddedPage # NullPage
                   THEN /\ batches' = [batches EXCEPT
                              ![b] = Spread(Spread(call, locals), [at |-> "renderHighResPage"])]
                        /\ UNCHANGED isProcessing
                   ELSE /\ batches' = [batches EXCEPT
                              ![b] = Spread(Spread(call, locals), [at |-> "done"])]
                        /\ isProcessing' = FALSE
    /\ handed' = handed \cup {ToGetDocument}
                    \cup (IF batches'[b].at = "renderHighResPage" THEN {ToRenderHighResPage}
                          ELSE {})
    /\ UNCHANGED <<selectedPageIds, editorPage, opening, draggedPageIndex, annotations,
                   toolVars, drawVars, selectedId, modeVars, nextId, ptr, gesture, track,
                   upload, rendered, ioVars>>

\* processFiles call b, after renderHighResPage resolved: setEditorPage and the finally
\* block.  An editor that is open stays mounted and keeps its state.
renderHighResPageSettled(b) ==
    /\ b \in 1..Len(batches)
    /\ batches[b].at = "renderHighResPage"
    /\ editorPage' = batches[b].lastAddedPage
    /\ isProcessing' = FALSE
    /\ batches' = [batches EXCEPT ![b] = Spread(batches[b], [at |-> "done"])]
    /\ IF Mounted
       THEN UNCHANGED <<annotations, toolVars, drawVars, selectedId, modeVars, ptr, gesture,
                        track, upload, rendered, ioVars, handed>>
       ELSE MountOn(batches[b].lastAddedPage)
    /\ UNCHANGED <<pages, selectedPageIds, opening, sources, draggedPageIndex, nextId>>

\* processFiles call b, after renderHighResPage rejected: the outer catch block and the
\* finally block
renderHighResPageFailed(b) ==
    /\ b \in 1..Len(batches)
    /\ batches[b].at = "renderHighResPage"
    /\ notice' = "error while processing files"
    /\ isProcessing' = FALSE
    /\ batches' = [batches EXCEPT ![b] = Spread(batches[b], [at |-> "done"])]
    /\ UNCHANGED <<pages, selectedPageIds, editorPage, opening, sources, draggedPageIndex,
                   annotations, toolVars, drawVars, selectedId, modeVars, nextId, ptr, gesture,
                   track, upload, rendered, exportOp, copyOp, downloaded, clipboard, handed>>

\* what the bytes of the registered documents hold: the /Rotate entry of each page, and
\* the documents that are encrypted (pdf.js opens them, PDFDocument.load throws)
RotationInSource(sourcePdfId, pageIndex) ==
    IF sourcePdfId = 1 /\ pageIndex = 1 THEN 90
    ELSE IF sourcePdfId = 2 THEN 270
    ELSE 0
Encrypted == {3}

\* a guard that lets any non-empty selection through
OneSelected_AtLeast(selected) == Cardinality(selected) >= 1

\* selectedPageIds.size !== 1, negated
OneSelected(selected) == Cardinality(selected) = 1

\* copyToClipboard, up to its return or to its await
copyToClipboard ==
    /\ GridReachable
    /\ copyOp = NoCopy
    /\ IF ~OneSelected(selectedPageIds)
       THEN /\ notice' = "select exactly one page"
            /\ UNCHANGED <<isProcessing, copyOp>>
       ELSE LET pageId == CHOOSE id \in selectedPageIds : TRUE
            IN  IF pageId \in Ids(pages) /\ Find(pages, pageId).sourcePdfId \in sources
                THEN /\ isProcessing' = TRUE
                     /\ copyOp' = [at |-> "renderHighResPage", page |-> Find(pages, pageId)]
                     /\ UNCHANGED notice
                ELSE /\ isProcessing' = FALSE
                     /\ UNCHANGED <<copyOp, notice>>
    /\ handed' = IF copyOp' # NoCopy THEN handed \cup {ToRenderHighResPage} ELSE handed
    /\ UNCHANGED <<pages, selectedPageIds, editorPage, opening, loadVars, annotations, toolVars,
                   drawVars, selectedId, modeVars, nextId, ptr, gesture, track, upload,
                   rendered, exportOp, downloaded, clipboard>>

\* copyToClipboard, after renderHighResPage settled: img.src is set, or the catch block
copyRenderSettled(ok) ==
    /\ copyOp # NoCopy /\ copyOp.at = "renderHighResPage"
    /\ IF ok
       THEN /\ copyOp' = Spread(copyOp, [at |-> "img.onload"])
            /\ UNCHANGED <<isProcessing, notice>>
       ELSE /\ copyOp' = NoCopy
            /\ isProcessing' = FALSE
            /\ notice' = "image generation failed"
    /\ UNCHANGED <<pages, selectedPageIds, editorPage, opening, loadVars, annotations, toolVars,
                   drawVars, selectedId, modeVars, nextId, ptr, gesture, track, upload,
                   rendered, exportOp, downloaded, clipboard, handed>>

\* img.onload of copyToClipboard: the page and its annotations are drawn, canvas.toBlob is
\* called and the indicator is cleared
copyImgOnload ==
    /\ copyOp # NoCopy /\ copyOp.at = "img.onload"
    /\ copyOp' = Spread(copyOp, [at |-> "clipboard.write"])
    /\ isProcessing' = FALSE
    /\ UNCHANGED <<pages, selectedPageIds, editorPage, opening, loadVars, annotations, toolVars,
                   drawVars, selectedId, modeVars, nextId, ptr, gesture, track, upload,
                   rendered, exportOp, notice, downloaded, clipboard, handed>>

\* navigator.clipboard.write settled: .then or .catch
clipboardWriteSettled(ok) ==
    /\ copyOp # NoCopy /\ copyOp.at = "clipboard.write"
    /\ copyOp' = NoCopy
    /\ IF ok
       THEN /\ clipboard' = [page |-> copyOp.page.id, rotation |-> copyOp.page.rotation,
                             annotations |-> copyOp.page.annotations]
            /\ notice' = "copied"
       ELSE /\ notice' = "copy failed"
            /\ UNCHANGED clipboard
    /\ UNCHANGED <<appVars, annotations, toolVars, drawVars, selectedId, modeVars, nextId, ptr,
                   gesture, track, upload, rendered, exportOp, downloaded, handed>>

\* what the flatten step of generateFinalPDF draws on a page: nothing, or one PNG of the
\* page's annotations over the whole page
NoOverlay == [drawn |-> FALSE]
Overlay_Always(pageData) == [drawn |-> TRUE, annotations |-> pageData.annotations]
Overlay(pageData) ==
    IF Len(pageData.annotations) > 0
    THEN [drawn |-> TRUE, annotations |-> pageData.annotations]
    ELSE NoOverlay

\* a rotation that replaces the one of the source page
OutputRotation_Replaced(currentRotation, rotation) == rotation

\* degrees(currentRotation + pageData.rotation)
OutputRotation(currentRotation, rotation) == currentRotation + rotation

\* the page generateFinalPDF adds to the merged document for pageData
CopiedPage(pageData) ==
    [sourcePdfId |-> pageData.sourcePdfId,
     pageIndex |-> pageData.pageIndex,
     rotation |-> OutputRotation(RotationInSource(pageData.sourcePdfId, pageData.pageIndex),
                                 pageData.rotation),
     overlay |-> Overlay(pageData)]

\* the pages of the list whose source is registered (the others are passed over by continue)
Sourced(list, srcs) == SelectSeq(list, LAMBDA p : p.sourcePdfId \in srcs)

\* a merged document with its pages in reverse
generateFinalPDF_Reversed(list, srcs, saves) ==
    IF (\E i \in 1..Len(list) : list[i].sourcePdfId \in srcs \cap Encrypted) \/ ~saves
    THEN [ok |-> FALSE]
    ELSE [ok |-> TRUE,
          pages |-> LET kept == Sourced(list, srcs)
                    IN  [i \in 1..Len(kept) |-> CopiedPage(kept[Len(kept) + 1 - i])]]

\* generateFinalPDF: the merged document, or the exception of PDFDocument.load or of save
generateFinalPDF(list, srcs, saves) ==
    IF (\E i \in 1..Len(list) : list[i].sourcePdfId \in srcs \cap Encrypted) \/ ~saves
    THEN [ok |-> FALSE]
    ELSE [ok |-> TRUE,
          pages |-> LET kept == Sourced(list, srcs)
                    IN  [i \in 1..Len(kept) |-> CopiedPage(kept[i])]]

\* exportPDF, up to its await
exportPDF ==
    /\ GridReachable
    /\ exportOp = NoExport
    /\ Len(pages) # 0
    /\ isProcessing' = TRUE
    /\ exportOp' = [at |-> "generateFinalPDF", pages |-> pages, sources |-> sources]
    /\ UNCHANGED <<pages, selectedPageIds, editorPage, opening, loadVars, annotations, toolVars,
                   drawVars, selectedId, modeVars, nextId, ptr, gesture, track, upload,
                   rendered, copyOp, notice, downloaded, clipboard, handed>>

\* a catch block that hands the file to download all the same
Delivered_Anyway(out, before) == [saved |-> TRUE, name |-> "edited_document.pdf", pages |-> <<>>]

\* what download() has received after the try block of exportPDF
Delivered(out, before) ==
    IF out.ok THEN [saved |-> TRUE, name |-> "edited_document.pdf", pages |-> out.pages]
    ELSE before

\* exportPDF, after generateFinalPDF settled: download or the catch block, then finally
exportPDFSettled(saves) ==
    /\ exportOp # NoExport
    /\ LET out == generateFinalPDF(exportOp.pages, exportOp.sources, saves)
       IN  /\ downloaded' = Delivered(out, downloaded)
           /\ notice' = IF out.ok THEN notice ELSE "error while saving"
    /\ exportOp' = NoExport
    /\ isProcessing' = FALSE
    /\ handed' = IF Sourced(exportOp.pages, exportOp.sources) # <<>>
                 THEN handed \cup {ToPDFDocumentLoad}
                 ELSE handed
    /\ UNCHANGED <<pages, selectedPageIds, editorPage, opening, loadVars, annotations, toolVars,
                   drawVars, selectedId, modeVars, nextId, ptr, gesture, track, upload,
                   rendered, copyOp, clipboard>>

-----------------------------------------------------------------------------
(* Inputs *)

Points == {Pos(100, 100), Pos(50, 60), Pos(0, 20)}
Handles == {"nw", "ne", "sw", "se"}
Swatches == {"#ef4444", "#3b82f6"}
FontSizes == {0, 16}

\* annotations saved by an earlier session
Text1 == [id |-> 1, type |-> "text", x |-> 50, y |-> 60, text |-> <<"h", "i">>,
          color |-> "#3b82f6", fontSize |-> 16, fontWeight |-> "bold"]
Highlight2 == [id |-> 2, type |-> "highlight", x |-> 100, y |-> 100,
               width |-> -50, height |-> -40, color |-> "#ffff00"]

NewPage(id, src, idx, anns) ==
    [id |-> id, sourcePdfId |-> src, pageIndex |-> idx, rotation |-> 0, annotations |-> anns]

-----------------------------------------------------------------------------
(* Editing sessions *)

\* the editor open on the only page, which holds the given annotations of earlier sessions
Editing(list, firstNewId) ==
    /\ pages = <<NewPage(1, 1, 0, list)>>
    /\ selectedPageIds = {}
    /\ isProcessing = FALSE
    /\ editorPage = pages[1]
    /\ opening = NullPage
    /\ annotations = list
    /\ tool = "select"
    /\ color = "#ef4444"
    /\ fontSize = DefaultFontSize
    /\ isBold = FALSE
    /\ isDrawing = FALSE
    /\ dragStartPos = Pos(0, 0)
    /\ currentAnnotation = NullAnn
    /\ selectedId = NoId
    /\ interactionMode = "none"
    /\ resizeHandle = NoHandle
    /\ interactionStartPos = Pos(0, 0)
    /\ initialAnnState = NullAnn
    /\ nextId = firstNewId
    /\ ptr = Pos(0, 0)
    /\ gesture = NoGesture
    /\ track = NoTrack
    /\ upload = NoUpload
    /\ rendered = NoRender
    /\ exportOp = NoExport
    /\ copyOp = NoCopy
    /\ notice = NoNotice
    /\ downloaded = NoDocument
    /\ clipboard = NoImage
    /\ handed = {}
    /\ sources = {pages[i].sourcePdfId : i \in 1..Len(pages)}
    /\ draggedPageIndex = NoIndex
    /\ batches = <<>>

\* move and resize gestures on the annotations of an earlier session
Init == Editing(<<Text1, Highlight2>>, 3)

\* the pointer handlers of the canvas and of the annotations, with the pointer on the
\* given positions and the held annotation kept on the grid of the window
CanvasStep(points, window, texts) ==
    \/ \E pos \in points, txt \in texts : handleMouseDown(pos, txt)
    \/ \E pos \in points : handleMouseMove(pos, window)
    \/ handleMouseUp
    \/ \E id \in Ids(annotations), pos \in points : handleAnnotationMouseDown(id, pos)

\* the same, with the corner handles
PointerStep(points, window, texts) ==
    \/ CanvasStep(points, window, texts)
    \/ \E h \in Handles, id \in Ids(annotations), pos \in points : handleResizeStart(h, id, pos)

Next ==
    \/ PointerStep(Points, Points, {NoText})
    \/ \E id \in Ids(annotations) : deleteAnnotation(id)
    \/ saveAnnotations
    \/ onClose

Spec == Init /\ [][Next]_vars

\* drawing gestures: pointer positions 5 and 6 page units apart; a held annotation
\* stays where it is
DrawPoints == {Pos(100, 100), Pos(105, 106), Pos(105, 100)}
DrawToolButtons == {"select", "rect"}

Arrow1 == [id |-> 1, type |-> "arrow", x |-> 100, y |-> 100,
           width |-> 5, height |-> 6, color |-> "#3b82f6"]

Highlight2d == [id |-> 2, type |-> "highlight", x |-> 105, y |-> 106,
                width |-> -5, height |-> -6, color |-> "#ffff00"]

InitDraw == Editing(<<Arrow1, Highlight2d>>, 3)

NextDraw ==
    \/ PointerStep(DrawPoints, {}, {NoText})
    \/ \E t \in DrawToolButtons : setTool(t)

SpecDraw == InitDraw /\ [][NextDraw]_vars

\* sessions that select, draw and pick colors; a held annotation stays where it is
ColorPoints == {Pos(100, 100), Pos(105, 106)}
ColorToolButtons == {"select", "rect", "highlight"}

InitColor == Editing(<<Arrow1, Highlight2d>>, 3)

NextColor ==
    \/ CanvasStep(ColorPoints, {}, {NoText})
    \/ \E t \in ColorToolButtons : setTool(t)
    \/ \E c \in Swatches : applyColor(c)

SpecColor == InitColor /\ [][NextColor]_vars

\* sessions that select and edit the toolbar properties
FontPoints == {Pos(100, 100)}
FontToolButtons == {"select", "text"}

InitFont == Editing(<<Text1, Highlight2>>, 3)

NextFont ==
    \/ CanvasStep(FontPoints, {}, {NoText})
    \/ \E t \in FontToolButtons : setTool(t)
    \/ \E c \in Swatches : applyColor(c)
    \/ \E v \in FontSizes : changeFontSize(v)
    \/ toggleBold

SpecFont == InitFont /\ [][NextFont]_vars

\* the page grid with no editor open
Browsing(pgs, firstNewId) ==
    /\ pages = pgs
    /\ selectedPageIds = {}
    /\ isProcessing = FALSE
    /\ editorPage = NullPage
    /\ opening = NullPage
    /\ annotations = <<>>
    /\ tool = "select"
    /\ color = "#ef4444"
    /\ fontSize = DefaultFontSize
    /\ isBold = FALSE
    /\ isDrawing = FALSE
    /\ dragStartPos = Pos(0, 0)
    /\ currentAnnotation = NullAnn
    /\ selectedId = NoId
    /\ interactionMode = "none"
    /\ resizeHandle = NoHandle
    /\ interactionStartPos = Pos(0, 0)
    /\ initialAnnState = NullAnn
    /\ nextId = firstNewId
    /\ ptr = Pos(0, 0)
    /\ gesture = NoGesture
    /\ track = NoTrack
    /\ upload = NoUpload
    /\ rendered = NoRender
    /\ exportOp = NoExport
    /\ copyOp = NoCopy
    /\ notice = NoNotice
    /\ downloaded = NoDocument
    /\ clipboard = NoImage
    /\ handed = {}
    /\ sources = {pgs[i].sourcePdfId : i \in 1..Len(pgs)}
    /\ draggedPageIndex = NoIndex
    /\ batches = <<>>

\* sessions opened from the grid of two pages, the first one rotated, that select, draw,
\* recolor and delete, and are saved or cancelled; a held annotation stays where it is
AppPoints == {Pos(50, 60), Pos(100, 100)}
AppToolButtons == {"select", "rect"}
AppSwatches == {"#ef4444"}

InitApp ==
    Browsing(<<Spread(NewPage(1, 1, 0, <<Text1>>), [rotation |-> 90]),
               NewPage(2, 1, 1, <<>>)>>, 3)

NextApp ==
    \/ \E i \in 1..Len(pages) : openEditor(i)
    \/ openEditorDone
    \/ saveAnnotations
    \/ onClose
    \/ CanvasStep(AppPoints, {}, {NoText})
    \/ \E t \in AppToolButtons : setTool(t)
    \/ \E c \in AppSwatches : applyColor(c)
    \/ \E id \in Ids(annotations) : deleteAnnotation(id)

SpecApp == InitApp /\ [][NextApp]_vars

\* sessions that select and place texts; a held annotation stays where it is
TextPoints == {Pos(100, 100), Pos(50, 60)}
TextToolButtons == {"select", "text"}
TextInputs == {NoText, <<>>, <<" ">>, <<" ", "h">>}

InitText == Editing(<<Text1>>, 3)

NextText ==
    \/ CanvasStep(TextPoints, {}, TextInputs)
    \/ \E t \in TextToolButtons : setTool(t)

SpecText == InitText /\ [][NextText]_vars

\* boxes of every orientation, and a text, laid out by the editor, the grid and the export
BoxCorners == {0, 100}
BoxExtents == {-50, -1, 0, 1, 50}
BoxShapes ==
    {[id |-> 1, type |-> "rect", x |-> bx, y |-> by, width |-> w, height |-> h,
      color |-> "#ef4444"] : bx \in BoxCorners, by \in BoxCorners, w \in BoxExtents, h \in BoxExtents}
      \cup {Text1, Highlight2}

InitBox == \E shape \in BoxShapes : Editing(<<shape>>, 2)

NextBox ==
    \/ \E i \in 1..Len(annotations) : renderAnnotation(i)
    \/ saveAnnotations
    \/ \E p \in 1..Len(pages) : \E i \in 1..Len(pages[p].annotations) : thumbnailAnnotation(p, i)
    \/ \E p \in 1..Len(pages) : \E i \in 1..Len(pages[p].annotations) : exportAnnotation(p, i)

SpecBox == InitBox /\ [][NextBox]_vars

\* the grid with three pages: selecting, rotating, deleting and reordering
GridPages == <<NewPage(1, 1, 0, <<>>), NewPage(2, 1, 1, <<Text1>>), NewPage(3, 2, 0, <<>>)>>

InitGrid == Browsing(GridPages, 1)

NextGrid ==
    \/ \E id \in Ids(pages) : toggleSelectPage(id)
    \/ rotateSelected
    \/ \E confirmed \in BOOLEAN : deleteSelected(confirmed)
    \/ \E index \in 1..Len(pages) : handlePageDragStart(index)
    \/ \E dropIndex \in 1..Len(pages) : handlePageDrop(dropIndex)

SpecGrid == InitGrid /\ [][NextGrid]_vars

\* ingestion: a PDF of two pages, a PDF whose second page fails to rasterize, two images,
\* and a pasted PDF
FileA == [name |-> "a.pdf", kind |-> "pdf", numPages |-> 2, sourceId |-> 11, firstPageId |-> 11]
FileBad == [name |-> "bad.pdf", kind |-> "bad", numPages |-> 2, failsAt |-> 2,
            sourceId |-> 12, firstPageId |-> 17]
FileB == [name |-> "b.png", kind |-> "image", numPages |-> 1, sourceId |-> 13, firstPageId |-> 14]
FileC == [name |-> "c.pdf", kind |-> "pdf", numPages |-> 1, sourceId |-> 14, firstPageId |-> 15]
FileD == [name |-> "d.jpg", kind |-> "image", numPages |-> 1, sourceId |-> 15, firstPageId |-> 16]
DroppedFiles == {<<FileA, FileBad, FileB>>}
PastedFiles == {<<FileC>>}
PickedFiles == {<<FileD>>}

InitLoad == Browsing(<<NewPage(1, 1, 0, <<Text1>>)>>, 2)

NextLoad ==
    \/ \E files \in PickedFiles : handleFileUpload(files)
    \/ \E files \in PastedFiles : handlePaste(files)
    \/ \E files \in DroppedFiles : handleDropFile(files)
    \/ \E b \in 1..Len(batches) : loadPDFSettled(b)
    \/ \E b \in 1..Len(batches) : renderHighResPageSettled(b)
    \/ \E i \in 1..Len(pages) : openEditor(i)
    \/ openEditorDone
    \/ onClose

SpecLoad == InitLoad /\ [][NextLoad]_vars

\* one pasted file, ingested while the user opens the editor and turns pages
StalePastedFiles == {<<FileC>>}

NextStale ==
    \/ \E files \in StalePastedFiles : handlePaste(files)
    \/ \E b \in 1..Len(batches) : loadPDFSettled(b)
    \/ \E b \in 1..Len(batches) : renderHighResPageSettled(b)
    \/ \E i \in 1..Len(pages) : openEditor(i)
    \/ openEditorDone
    \/ onClose
    \/ \E id \in Ids(pages) : toggleSelectPage(id)
    \/ rotateSelected

SpecStale == InitLoad /\ [][NextStale]_vars

\* sessions that place images; a held annotation stays where it is
ImagePoints == {Pos(100, 100), Pos(50, 60)}
ImageToolButtons == {"select", "image"}
ImageFiles == {[name |-> "wide.png", width |-> 300, height |-> 150],
               [name |-> "tall.png", width |-> 100, height |-> 200]}

InitImage == Editing(<<Text1>>, 3)

NextImage ==
    \/ CanvasStep(ImagePoints, {}, {NoText})
    \/ \E t \in ImageToolButtons : setTool(t)
    \/ \E file \in ImageFiles \cup {NoFile} : handleImageUpload(file)
    \/ imgOnload

SpecImage == InitImage /\ [][NextImage]_vars

-----------------------------------------------------------------------------
(* Claims about drawing gestures and the canvas, checked under SpecDraw.  A gesture  *)
(* is one pointer-down, the pointer-moves after it and one pointer-up or -leave.     *)

Min(a, b) == IF a < b THEN a ELSE b

Last(list) == list[Len(list)]

\* C1: when a drawing gesture ends, the provisional shape is appended to the list and
\* selected iff |width| > 5 or |height| > 5; otherwise list and selection are as they
\* were before the gesture; either way the session is idle with no provisional shape.
C1_DrawEndCommitsIffBigEnough ==
    [][ /\ gesture.kind = "draw" =>
             /\ isDrawing /\ currentAnnotation # NullAnn
             /\ annotations = gesture.list /\ selectedId = gesture.sel
        /\ (isDrawing /\ gesture'.kind = "none") =>
             LET big == \/ Abs(currentAnnotation.width) > 5
                        \/ Abs(currentAnnotation.height) > 5
             IN  /\ big =>
                      /\ Len(annotations') = Len(annotations) + 1
                      /\ SubSeq(annotations', 1, Len(annotations)) = annotations
                      /\ Last(annotations').type = currentAnnotation.type
                      /\ Last(annotations').width = currentAnnotation.width
                      /\ Last(annotations').height = currentAnnotation.height
                      /\ Last(annotations').id \notin Ids(annotations)
                      /\ selectedId' = Last(annotations').id
                 /\ ~big => annotations' = annotations /\ selectedId' = selectedId
                 /\ ~isDrawing' /\ currentAnnotation' = NullAnn
                 /\ interactionMode' = "none"
      ]_vars

\* a shape with one extent of at most 5 and the other above 5 was committed and selected
C1_Witness ==
    /\ gesture.kind = "none" /\ ~isDrawing
    /\ selectedId \in Ids(annotations) /\ selectedId \notin Ids(pages[1].annotations)
    /\ Abs(Find(annotations, selectedId).width) <= 5
    /\ Abs(Find(annotations, selectedId).height) > 5

\* C2: a shape committed by a drawing gesture from S to E is stored with (x,y) = S and
\* (width,height) = E - S, signed; the box derived for drawing it has its top-left at
\* (min(Sx,Ex), min(Sy,Ey)) and the absolute extents.
C2_StoredSignedDrawnNormalized ==
    [][ /\ gesture.kind = "draw" =>
             /\ currentAnnotation.x = gesture.start.x
             /\ currentAnnotation.y = gesture.start.y
             /\ currentAnnotation.width = ptr.x - gesture.start.x
             /\ currentAnnotation.height = ptr.y - gesture.start.y
        /\ (gesture.kind = "draw" /\ gesture'.kind = "none"
                /\ Len(annotations') = Len(annotations) + 1) =>
             LET S == gesture.start
                 E == ptr
                 new == Last(annotations')
                 box == NormalizeBox(new)
             IN  /\ new.x = S.x /\ new.y = S.y
                 /\ new.width = E.x - S.x /\ new.height = E.y - S.y
                 /\ box.x = Min(S.x, E.x) /\ box.y = Min(S.y, E.y)
                 /\ box.width = Abs(E.x - S.x) /\ box.height = Abs(E.y - S.y)
                 /\ new.x = 100 /\ new.width = -50 => box.x = 50 /\ box.width = 50
      ]_vars

\* a shape drawn towards the top left is in the list, with both extents negative
C2_Witness ==
    \E i \in 1..Len(annotations) :
        /\ annotations[i].id \notin Ids(pages[1].annotations)
        /\ annotations[i].width < 0 /\ annotations[i].height < 0
        /\ NormalizeBox(annotations[i]).x < annotations[i].x
        /\ NormalizeBox(annotations[i]).width > 0

\* C6: at most one of Drawing, Moving and Resizing is active in every reachable state,
\* and a pointer-down that starts Moving or Resizing neither starts a Drawing nor
\* clears the selection.
C6_OneModeAtATime ==
    [][ /\ ~(isDrawing' /\ interactionMode' # "none")
        /\ (interactionMode = "none" /\ interactionMode' # "none") =>
             /\ (isDrawing' => isDrawing)
             /\ selectedId' # NoId
      ]_vars

\* C10: a pointer-down on the empty canvas with the select tool clears the selection,
\* starts no gesture of drawing, moving or resizing, and leaves the list as it is.
C10_CanvasDownWithSelectDeselects ==
    [][ (tool = "select" /\ gesture.kind = "none" /\ gesture'.kind = "click") =>
             /\ selectedId' = NoId
             /\ annotations' = annotations
             /\ ~isDrawing' /\ currentAnnotation' = NullAnn
             /\ interactionMode' = "none" /\ initialAnnState' = NullAnn
      ]_vars

\* the canvas took a pointer-down with the select tool after an annotation was selected
C10_Witness ==
    /\ tool = "select" /\ gesture.kind = "click"
    /\ track.id # NoId /\ selectedId = NoId

-----------------------------------------------------------------------------
(* Claims about the layout of boxes, checked under SpecBox *)

Max(a, b) == IF a > b THEN a ELSE b

\* C14: wherever a box is laid out (editor, thumbnail, export), the normalized box has
\* width and height >= 0, covers the region [min(x, x+w), max(x, x+w)] x
\* [min(y, y+h), max(y, y+h)] of the stored box, and normalizing it again changes nothing.
C14_NormalizedBoxSameRegion ==
    rendered # NoRender =>
        LET w == OrZero(rendered.of, "width")
            h == OrZero(rendered.of, "height")
            box == rendered.box
        IN  /\ box.width >= 0 /\ box.height >= 0
            /\ box.x = Min(rendered.of.x, rendered.of.x + w)
            /\ box.x + box.width = Max(rendered.of.x, rendered.of.x + w)
            /\ box.y = Min(rendered.of.y, rendered.of.y + h)
            /\ box.y + box.height = Max(rendered.of.y, rendered.of.y + h)
            /\ NormalizeBox(box) = box /\ ThumbnailBox(box) = box /\ ExportBox(box) = box

\* a box stored with negative width and height, laid out for the export after a save
C14_Witness ==
    /\ rendered # NoRender /\ rendered.by = "export"
    /\ rendered.of.width < 0 /\ rendered.of.height < 0
    /\ rendered.box.x < rendered.of.x /\ rendered.box.y < rendered.of.y

-----------------------------------------------------------------------------
(* Claims about the page grid, checked under SpecGrid *)

QuarterTurns == {0, 90, 180, 270}

\* C18: bulk-rotate sets the rotation of exactly the selected pages to (r + 90) mod 360
\* and changes nothing else; a rotation is always one of 0, 90, 180, 270; four
\* rotations of a page restore it.
C18_RotateSelectedByQuarterTurn ==
    /\ [][ rotateSelected =>
              /\ Len(pages') = Len(pages)
              /\ \A i \in 1..Len(pages) :
                    pages'[i] = IF pages[i].id \in selectedPageIds
                                THEN [pages[i] EXCEPT !.rotation = (@ + 90) % 360]
                                ELSE pages[i]
              /\ selectedPageIds' = selectedPageIds /\ sources' = sources
              /\ editorPage' = editorPage /\ draggedPageIndex' = draggedPageIndex
         ]_vars
    /\ [](\A i \in 1..Len(pages) :
            /\ pages[i] # UndefinedPage => pages[i].rotation \in QuarterTurns
            /\ pages[i] # UndefinedPage =>
                  Rotated(Rotated(Rotated(Rotated(pages[i], {pages[i].id}), {pages[i].id}),
                                  {pages[i].id}), {pages[i].id}) = pages[i])

\* three pages turned three times, once and not at all, the first one selected
C18_Witness ==
    /\ Len(pages) = 3 /\ selectedPageIds = {pages[1].id}
    /\ pages[1].rotation = 270 /\ pages[2].rotation = 90 /\ pages[3].rotation = 0

\* C19: bulk-delete with a non-empty selection asks for confirmation; confirmed, exactly
\* the selected pages are removed, the others keep their order and contents, and the
\* selection becomes empty; declined, or with an empty selection, nothing changes.
C19_DeleteSelectedAfterConfirm ==
    [][ /\ deleteSelected(TRUE) =>
            LET keep == {i \in 1..Len(pages) : pages[i].id \notin selectedPageIds}
            IN  /\ selectedPageIds # {}
                /\ Len(pages') = Cardinality(keep)
                /\ \A i \in keep : pages'[Cardinality({j \in keep : j <= i})] = pages[i]
                /\ selectedPageIds' = {}
        /\ deleteSelected(FALSE) => pages' = pages /\ selectedPageIds' = selectedPageIds
        /\ selectedPageIds = {} => Len(pages') >= Len(pages)
      ]_vars

\* the first and the last page were deleted; the middle one is kept with its annotation
C19_Witness ==
    /\ pages = <<GridPages[2]>> /\ selectedPageIds = {}

\* where the page at position k is after the page at position from moved to position to
ShiftedBy(from, to, k) ==
    IF from < k /\ k <= to THEN k - 1
    ELSE IF to <= k /\ k < from THEN k + 1
    ELSE k

\* C20, as amended: dropping the page dragged from position i on position j (i # j)
\* moves it to position j; the pages between the two positions shift by one towards i,
\* the others stay in place, and no page is lost or changed.
C20_DropMovesDraggedPage ==
    [][ \A j \in 1..Len(pages) :
          (handlePageDrop(j) /\ draggedPageIndex \in 1..Len(pages)) =>
              /\ draggedPageIndex # j
              /\ Len(pages') = Len(pages)
              /\ pages'[j] = pages[draggedPageIndex]
              /\ \A k \in 1..Len(pages) \ {draggedPageIndex} :
                    pages'[ShiftedBy(draggedPageIndex, j, k)] = pages[k]
      ]_vars

\* C20, as stated: the drop exchanges the pages at positions i and j, the others stay
C20_DropExchangesTwoPages ==
    [][ \A j \in 1..Len(pages) :
          (handlePageDrop(j) /\ draggedPageIndex \in 1..Len(pages)) =>
              /\ draggedPageIndex # j
              /\ Len(pages') = Len(pages)
              /\ pages'[j] = pages[draggedPageIndex]
              /\ pages'[draggedPageIndex] = pages[j]
              /\ \A k \in 1..Len(pages) \ {draggedPageIndex, j} : pages'[k] = pages[k]
      ]_vars

\* the first page dropped on the last: the two pages behind it moved up by one
C20_Witness ==
    /\ Len(pages) = 3 /\ draggedPageIndex = NoIndex
    /\ pages[1] = GridPages[2] /\ pages[2] = GridPages[3] /\ pages[3] = GridPages[1]

-----------------------------------------------------------------------------
(* Claims about ingestion, checked under SpecLoad and SpecStale *)

\* (source document, page number) of the pages the loadable files of a list hold,
\* file by file in the order of the list, each file's pages in ascending order
RECURSIVE PagesHeld(_)
PagesHeld(files) ==
    IF files = <<>> THEN <<>>
    ELSE (IF Head(files).kind = "bad" THEN <<>>
          ELSE [i \in 1..Head(files).numPages |-> <<Head(files).sourceId, i - 1>>])
         \o PagesHeld(Tail(files))

\* call b of processFiles leaves its loop in this step and stores its pages and sources
Completes(b) == loadPDFSettled(b) /\ batches[b].next = Len(batches[b].files)

\* C15: when a batch has gone through its files, a file that failed to load has not
\* stopped it: the source of every file that loaded is registered, and the list ends
\* with the pages of those files, files in input order, each file's pages ascending.
C15_BatchAppendsLoadedFilesInOrder ==
    [][ \A b \in 1..Len(batches) : Completes(b) =>
          LET held == PagesHeld(batches[b].files)
              before == Len(pages') - Len(held)
          IN  /\ before >= 0
              /\ \A k \in 1..Len(held) :
                    /\ pages'[before + k].sourcePdfId = held[k][1]
                    /\ pages'[before + k].pageIndex = held[k][2]
                    /\ pages'[before + k].sourcePdfId \in sources'
              /\ \A k \in 1..Len(batches[b].files) :
                    batches[b].files[k].kind = "bad" =>
                        batches[b].files[k].sourceId \notin sources'
      ]_vars

\* the batch with the failing file between two loadable ones has completed
C15_Witness ==
    /\ \E b \in 1..Len(batches) :
          batches[b].files = <<FileA, FileBad, FileB>> /\ batches[b].at = "done"
    /\ Len(pages) >= 3
    /\ pages[Len(pages) - 2].sourcePdfId = FileA.sourceId /\ pages[Len(pages) - 2].pageIndex = 0
    /\ pages[Len(pages) - 1].sourcePdfId = FileA.sourceId /\ pages[Len(pages) - 1].pageIndex = 1
    /\ pages[Len(pages)].sourcePdfId = FileB.sourceId
    /\ {FileA.sourceId, FileB.sourceId} \subseteq sources

\* the ids of the pages the loadable files of the completed calls hold
IngestedIds ==
    UNION {UNION {{batches[b].files[k].firstPageId + i - 1 :
                      i \in 1..(IF batches[b].files[k].kind = "bad" THEN 0
                                 ELSE batches[b].files[k].numPages)} :
                      k \in 1..Len(batches[b].files)} :
              b \in {c \in 1..Len(batches) : batches[c].at # "loadPDF"}}

\* C16: ingestion only appends: the list holds the pages of every loaded file of every
\* completed batch, and the completion of a batch leaves every page that was in the
\* list at its position.
C16_IngestionOnlyAppends ==
    /\ [](IngestedIds \subseteq Ids(pages))
    /\ [][ \A b \in 1..Len(batches) : Completes(b) =>
              /\ Len(pages') >= Len(pages)
              /\ SubSeq(pages', 1, Len(pages)) = pages
         ]_vars

\* C17: the completion of a batch loses no change made to the list since the batch
\* started: a page that is still in the list keeps its rotation and annotations, and
\* the only pages that enter the list are those of the batch.
C17_CompletionKeepsMutations ==
    [][ \A b \in 1..Len(batches) : Completes(b) =>
          /\ \A i \in 1..Len(pages), j \in 1..Len(pages') :
                pages'[j].id = pages[i].id => pages'[j] = pages[i]
          /\ \A j \in 1..Len(pages') :
                \/ pages'[j].id \in Ids(pages)
                \/ \E k \in 1..Len(batches[b].files) :
                      pages'[j].sourcePdfId = batches[b].files[k].sourceId
      ]_vars

-----------------------------------------------------------------------------
(* Claims about deleting, checked under Spec *)

\* C13: deleting the selected annotation removes exactly that annotation from the list,
\* the others keep their order and fields, and the selection becomes none.
C13_DeleteRemovesExactlySelected ==
    [][ \A id \in Ids(annotations) : deleteAnnotation(id) =>
          /\ id = selectedId
          /\ \E k \in 1..Len(annotations) :
                /\ annotations[k].id = id
                /\ annotations' = SubSeq(annotations, 1, k - 1)
                                     \o SubSeq(annotations, k + 1, Len(annotations))
          /\ id \notin Ids(annotations')
          /\ selectedId' = NoId
      ]_vars

\* the first annotation was deleted after the second was moved; the second is kept as moved
C13_Witness ==
    /\ Len(annotations) = 1 /\ selectedId = NoId /\ BetweenGestures
    /\ annotations[1] # Highlight2
    /\ annotations[1] = Spread(Highlight2, [x |-> annotations[1].x, y |-> annotations[1].y])

-----------------------------------------------------------------------------
(* Claims about the text tool, checked under SpecText *)

\* the prompt was cancelled, or its input has no character other than spaces
BlankInput(txt) == txt = NoText \/ \A i \in 1..Len(txt) : txt[i] = " "

\* the step is a pointer-down on the canvas with the text tool, whose prompt returned txt
TextToolDown(txt) ==
    /\ tool = "text" /\ interactionMode = "none"
    /\ \E pos \in TextPoints : handleMouseDown(pos, txt)

\* the step appended one text annotation with the given text at the pointer, with the
\* color, font size and weight of the toolbar, and selected it
TextAppended(txt) ==
    /\ Len(annotations') = Len(annotations) + 1
    /\ SubSeq(annotations', 1, Len(annotations)) = annotations
    /\ Last(annotations').id \notin Ids(annotations)
    /\ Last(annotations') =
          [id |-> Last(annotations').id, type |-> "text", x |-> ptr'.x, y |-> ptr'.y,
           text |-> txt, color |-> color, fontSize |-> fontSize,
           fontWeight |-> IF isBold THEN "bold" ELSE "normal"]
    /\ selectedId' = Last(annotations').id

\* C11, as amended: a pointer-down with the text tool never enters Drawing; with an
\* input that is cancelled, empty or blank (spaces only) it leaves list and selection
\* unchanged; with any other input it appends one text annotation at the click point
\* with the entered text and the toolbar's color, font size and weight, and selects it.
C11_TextToolAppendsUnlessBlank ==
    [][ \A txt \in TextInputs : TextToolDown(txt) =>
          /\ ~isDrawing' /\ currentAnnotation' = NullAnn
          /\ IF BlankInput(txt)
             THEN annotations' = annotations /\ selectedId' = selectedId
             ELSE TextAppended(txt)
      ]_vars

\* C11, as stated: every input that is not cancelled and not empty is appended
C11_NonEmptyTextIsAppended ==
    [][ \A txt \in TextInputs : TextToolDown(txt) =>
          /\ ~isDrawing' /\ currentAnnotation' = NullAnn
          /\ IF txt = NoText \/ txt = <<>>
             THEN annotations' = annotations /\ selectedId' = selectedId
             ELSE TextAppended(txt)
      ]_vars

\* a text placed with the toolbar values taken from the text selected before it
C11_Witness ==
    /\ gesture.kind = "click" /\ "txt" \in DOMAIN gesture
    /\ selectedId \in Ids(annotations) /\ selectedId # Text1.id
    /\ Find(annotations, selectedId).text = <<" ", "h">>
    /\ Find(annotations, selectedId).fontSize = Text1.fontSize
    /\ Find(annotations, selectedId).fontWeight = "bold"
    /\ Find(annotations, selectedId).color = Text1.color
    /\ Find(annotations, selectedId).x = gesture.start.x

-----------------------------------------------------------------------------
(* Claims about the image tool, checked under SpecImage *)

\* C12: an annotation enters the list only when the picked image file has been read; it
\* is an image appended at (100, 100) with width 300 and height 300 * (imageHeight /
\* imageWidth), wherever the pointer went down; it becomes the selected annotation and
\* the tool becomes select.  A pointer-down with the image tool and a picker closed
\* without a file create nothing.
C12_ImageCommittedAtDefaultPlace ==
    [][ /\ Ids(annotations') # Ids(annotations) =>
            /\ upload # NoUpload /\ ~PickerOpen
            /\ Len(annotations') = Len(annotations) + 1
            /\ SubSeq(annotations', 1, Len(annotations)) = annotations
            /\ Last(annotations').id \notin Ids(annotations)
            /\ Last(annotations').type = "image"
            /\ Last(annotations').x = 100 /\ Last(annotations').y = 100
            /\ Last(annotations').width = 300
            /\ Last(annotations').height * upload.file.width = 300 * upload.file.height
            /\ selectedId' = Last(annotations').id
            /\ tool' = "select"
        /\ tool = "image" /\ (\E pos \in ImagePoints : handleMouseDown(pos, NoText)) =>
            annotations' = annotations /\ ~isDrawing'
        /\ handleImageUpload(NoFile) =>
            upload' = NoUpload /\ annotations' = annotations /\ selectedId' = selectedId
      ]_vars

\* the tall image committed after a pointer-down away from (100, 100)
C12_Witness ==
    /\ gesture.kind = "click" /\ gesture.start = Pos(50, 60)
    /\ upload = NoUpload /\ tool = "select"
    /\ selectedId \in Ids(annotations)
    /\ Find(annotations, selectedId) =
          [id |-> selectedId, type |-> "image", x |-> 100, y |-> 100, width |-> 300,
           height |-> 600, color |-> "", imageData |-> "tall.png"]

-----------------------------------------------------------------------------
(* Claims about the toolbar *)

\* C8 (under SpecColor): selecting a highlight leaves the toolbar color as it is and
\* selecting any other kind sets it to the annotation's color; no step of drawing a
\* highlight changes the toolbar color; a committed highlight is stored with #ffff00
\* and a committed rect or arrow with the toolbar color, which no highlight has set.
C8_HighlightNeverSetsToolbarColor ==
    [][ /\ (gesture.kind = "none" /\ gesture'.kind = "move") =>
             IF Find(annotations, selectedId').type = "highlight"
             THEN color' = color
             ELSE color' = Find(annotations, selectedId').color
        /\ (currentAnnotation.type = "highlight" \/ currentAnnotation'.type = "highlight") =>
             color' = color
        /\ (isDrawing /\ gesture'.kind = "none"
                /\ Len(annotations') = Len(annotations) + 1) =>
             /\ color' = color
             /\ Last(annotations').color =
                    IF currentAnnotation.type = "highlight" THEN "#ffff00" ELSE color
      ]_vars

\* the toolbar color was taken from the arrow, the highlight was the last annotation
\* selected by the pointer, and the rect drawn after that is stored with the arrow's color
C8_Witness ==
    /\ gesture.kind = "none" /\ track.id = Highlight2d.id
    /\ selectedId \in Ids(annotations) /\ selectedId \notin Ids(pages[1].annotations)
    /\ Find(annotations, selectedId).type = "rect"
    /\ Find(annotations, selectedId).color = Arrow1.color
    /\ Find(annotations, Highlight2d.id).color = "#ffff00"
    /\ color = Arrow1.color

\* C9 (under SpecFont): a toolbar edit changes the selected annotation only, and of it
\* only fontSize and fontWeight (font size and bold edits, text annotations only) or
\* color (apply-color, any kind); with no selection it changes no annotation.
C9_ToolbarEditsOnlySelected ==
    [][ (gesture.kind = "none" /\ gesture'.kind = "none" /\ selectedId' = selectedId
            /\ Mounted /\ Mounted') =>
          /\ Len(annotations') = Len(annotations)
          /\ \A i \in 1..Len(annotations) :
                LET a == annotations[i]
                    b == annotations'[i]
                    fontEdit == fontSize' # fontSize \/ isBold' # isBold
                IN  /\ a.id # selectedId => b = a
                    /\ DOMAIN b = DOMAIN a
                    /\ \A f \in DOMAIN a \ {"color", "fontSize", "fontWeight"} : b[f] = a[f]
                    /\ a.type # "text" => \A f \in DOMAIN a \ {"color"} : b[f] = a[f]
                    /\ fontEdit => b.color = a.color
                    /\ (fontEdit /\ a.id = selectedId /\ a.type = "text") =>
                          /\ b.fontSize = fontSize'
                          /\ b.fontWeight = (IF isBold' THEN "bold" ELSE "normal")
                    /\ (~fontEdit /\ a.type = "text") =>
                          b.fontSize = a.fontSize /\ b.fontWeight = a.fontWeight
                    /\ (color' # color /\ a.id = selectedId) => b.color = color'
                    /\ b.color # a.color => b.color = color'
      ]_vars

\* with the highlight selected, its color was changed by apply-color and the font
\* size and bold were edited, and the text annotation is as it was
C9_Witness ==
    /\ selectedId = Highlight2.id /\ tool = "text"
    /\ fontSize = 0 /\ isBold
    /\ Find(annotations, Highlight2.id) = Spread(Highlight2, [color |-> "#3b82f6"])
    /\ Find(annotations, Text1.id) = Text1

-----------------------------------------------------------------------------
(* Claims about saving and cancelling, checked under SpecApp *)

\* C7: a save replaces the annotation list of the edited page by the session's list,
\* changes no other field of it and no other page, and closes the session; a cancel
\* closes it and leaves the pages as they are; and while a session is open the page
\* list is not changed, so the edited page holds the list it had at the opening.
C7_SaveReplacesCancelKeeps ==
    [][ /\ saveAnnotations =>
             /\ ~Mounted'
             /\ Len(pages') = Len(pages)
             /\ \A i \in 1..Len(pages) :
                   pages'[i] = IF pages[i].id = editorPage.id
                               THEN [pages[i] EXCEPT !.annotations = annotations]
                               ELSE pages[i]
        /\ onClose => ~Mounted' /\ pages' = pages
        /\ Mounted =>
             \A i \in 1..Len(pages) :
                pages[i].id = editorPage.id => pages[i] = editorPage
        /\ (Mounted /\ Mounted') => pages' = pages /\ editorPage' = editorPage
      ]_vars

\* a session on the rotated page was saved with a shape drawn in it, the other page
\* is as it was, and a session on the other page is open
C7_Witness ==
    /\ Mounted /\ editorPage.id = 2
    /\ pages[1].rotation = 90 /\ Len(pages[1].annotations) = 2
    /\ pages[1].annotations[1] = Text1
    /\ pages[2] = NewPage(2, 1, 1, <<>>)
    /\ nextId > 3 /\ annotations = <<>>

-----------------------------------------------------------------------------
(* Claims about move and resize gestures, checked under Spec *)

\* C3: during a move gesture the moved annotation is at its pointer-down position plus
\* (current pointer position - pointer-down position), whatever pointer-moves came
\* before; and after a run of move gestures it is at its first position plus the sum of
\* their net displacements, where one gesture of that total displacement would put it.
C3_MoveIsSnapshotPlusDelta ==
    track.id # NoId /\ track.id \in Ids(annotations) =>
        LET a == Find(annotations, track.id)
        IN  IF gesture.kind = "move"
            THEN /\ initialAnnState # NullAnn
                 /\ initialAnnState.x = track.x /\ initialAnnState.y = track.y
                 /\ a.x = track.x + (ptr.x - gesture.start.x)
                 /\ a.y = track.y + (ptr.y - gesture.start.y)
            ELSE gesture.kind = "none" => a.x = track.x /\ a.y = track.y

\* a second displacing move gesture on the same annotation has ended
C3_Witness ==
    /\ gesture.kind = "none" /\ track.id # NoId /\ track.n = 2
    /\ track.id \in Ids(annotations)
    /\ Find(annotations, track.id).x # Highlight2.x

\* C4: during a resize gesture on handle h with pointer delta (dx,dy), the annotation is
\* its pointer-down snapshot with width += dx for e, x += dx and width -= dx for w,
\* height += dy for s, y += dy and height -= dy for n; nothing is clamped, and the
\* corner opposite the handle (in stored signed coordinates) stays where it was.
C4_ResizeByHandle ==
    gesture.kind = "resize" =>
        LET snap == gesture.snap
            h == gesture.handle
            a == Find(annotations, snap.id)
            dx == ptr.x - gesture.start.x
            dy == ptr.y - gesture.start.y
        IN  /\ snap.id \in Ids(annotations)
            /\ h \in {"ne", "se"} => a.x = snap.x /\ a.width = snap.width + dx
            /\ h \in {"nw", "sw"} => a.x = snap.x + dx /\ a.width = snap.width - dx
            /\ h \in {"sw", "se"} => a.y = snap.y /\ a.height = snap.height + dy
            /\ h \in {"nw", "ne"} => a.y = snap.y + dy /\ a.height = snap.height - dy
            /\ h \in {"nw", "sw"} => a.x + a.width = snap.x + snap.width
            /\ h \in {"nw", "ne"} => a.y + a.height = snap.y + snap.height

\* a resize in progress has turned a positive width into a negative one
C4_Witness ==
    /\ gesture.kind = "resize"
    /\ gesture.snap.width > 0
    /\ Find(annotations, gesture.snap.id).width < 0
    /\ ptr # gesture.start

\* C5: the pointer-up or pointer-leave that ends a move or resize gesture clears mode,
\* handle and snapshot and leaves every annotation as the last pointer-move left it;
\* and a save stores the session's annotations as they are, inverted extents included.
C5_GestureEndKeepsGeometry ==
    [][ /\ (gesture.kind \in {"move", "resize"} /\ gesture'.kind = "none") =>
             /\ interactionMode' = "none"
             /\ resizeHandle' = NoHandle
             /\ initialAnnState' = NullAnn
             /\ Len(annotations') = Len(annotations)
             /\ \A i \in 1..Len(annotations) : annotations'[i] = annotations[i]
        /\ (Mounted /\ ~Mounted' /\ pages' # pages) =>
             \A i \in 1..Len(pages) :
                pages[i].id = editorPage.id => pages'[i].annotations = annotations
      ]_vars

\* an annotation resized to one positive and one negative extent has been saved
C5_Witness ==
    /\ ~Mounted
    /\ \E i \in 1..Len(pages[1].annotations) :
          LET a == pages[1].annotations[i]
          IN  a.type = "highlight" /\ a.width > 0 /\ a.height < 0

-----------------------------------------------------------------------------
(* The header: copying a page to the clipboard *)

\* the grid with two pages, the first one annotated: selecting, rotating and copying
CopyPages == <<NewPage(1, 1, 0, <<Text1>>), NewPage(2, 1, 1, <<>>)>>

InitCopy == Browsing(CopyPages, 3)

NextCopy ==
    \/ \E id \in Ids(pages) : toggleSelectPage(id)
    \/ rotateSelected
    \/ copyToClipboard
    \/ \E ok \in BOOLEAN : copyRenderSettled(ok)
    \/ copyImgOnload
    \/ \E ok \in BOOLEAN : clipboardWriteSettled(ok)

SpecCopy == InitCopy /\ [][NextCopy]_vars

\* C21: copyToClipboard goes on only with exactly one page selected, and then it renders
\* that page; called with no page or with several pages selected it starts no render,
\* writes nothing to the clipboard and leaves the pages, the sources, the selection, the
\* editor and the processing indicator as they are.
C21_CopyNeedsExactlyOneSelected ==
    [][copyToClipboard =>
          IF Cardinality(selectedPageIds) = 1
          THEN copyOp' # NoCopy => copyOp'.page.id \in selectedPageIds
          ELSE /\ copyOp' = NoCopy
               /\ UNCHANGED <<pages, sources, selectedPageIds, isProcessing, editorPage,
                              opening, annotations, toolVars, drawVars, selectedId, modeVars,
                              clipboard, handed, exportOp, downloaded>>
      ]_vars

\* the copy was refused with two pages selected
C21_Witness ==
    /\ Cardinality(selectedPageIds) = 2
    /\ notice = "select exactly one page"
    /\ copyOp = NoCopy
    /\ clipboard = NoImage
    /\ ~isProcessing

-----------------------------------------------------------------------------
(* The header: export *)

\* the grid with three pages: the first annotated, the second stored with /Rotate 90 in its
\* document, the third from an encrypted document; selecting, rotating, deleting, exporting
ExportPages ==
    <<NewPage(1, 1, 0, <<Text1>>), NewPage(2, 1, 1, <<>>), NewPage(3, 3, 0, <<>>)>>

InitExport == Browsing(ExportPages, 3)

NextExport ==
    \/ \E id \in Ids(pages) : toggleSelectPage(id)
    \/ rotateSelected
    \/ \E confirmed \in BOOLEAN : deleteSelected(confirmed)
    \/ exportPDF
    \/ \E saves \in BOOLEAN : exportPDFSettled(saves)

SpecExport == InitExport /\ [][NextExport]_vars

\* every document of the pages the call was given loads
Loads(call) == \A i \in 1..Len(call.pages) : call.pages[i].sourcePdfId \notin Encrypted

\* C22: an export is given the page list of the moment it is called; when its documents
\* load and the result is serialized, one document is handed to download, with one page
\* per page of that list, in list order, each the copy of the descriptor's source page;
\* no step of an export changes the page list, the sources or the selection.
C22_ExportFollowsPageList ==
    /\ [][exportPDF => exportOp'.pages = pages /\ exportOp'.sources = sources]_vars
    /\ [][(exportPDFSettled(TRUE) /\ Loads(exportOp)) =>
             /\ downloaded'.saved
             /\ Len(downloaded'.pages) = Len(exportOp.pages)
             /\ \A i \in 1..Len(exportOp.pages) :
                   /\ downloaded'.pages[i].sourcePdfId = exportOp.pages[i].sourcePdfId
                   /\ downloaded'.pages[i].pageIndex = exportOp.pages[i].pageIndex
         ]_vars
    /\ [][(exportPDF \/ \E saves \in BOOLEAN : exportPDFSettled(saves)) =>
             UNCHANGED <<pages, sources, selectedPageIds>>]_vars

\* a document of two pages was exported while a page was selected
C22_Witness ==
    /\ downloaded.saved
    /\ Len(downloaded.pages) = 2
    /\ downloaded.pages[1].pageIndex = 0 /\ downloaded.pages[2].pageIndex = 1
    /\ Len(pages) = 2
    /\ selectedPageIds # {}
    /\ exportOp = NoExport

\* C23: the rotation of every exported page is the rotation its source page already has
\* plus the rotation of its descriptor, up to whole turns: the two are added, the
\* descriptor's rotation does not replace the stored one.
C23_ExportAddsRotations ==
    [][(exportPDFSettled(TRUE) /\ Loads(exportOp)) =>
          \A i \in 1..Len(exportOp.pages) :
             LET pageData == exportOp.pages[i]
                 inSource == RotationInSource(pageData.sourcePdfId, pageData.pageIndex)
             IN  /\ pageData.rotation \in {0, 90, 180, 270}
                 /\ downloaded'.pages[i].rotation % 360 = (inSource + pageData.rotation) % 360
      ]_vars

\* a page stored with /Rotate 90 whose descriptor is at 270 (three quarter turns) was
\* exported with 360, next to a page exported with the rotation it is stored with
C23_Witness ==
    /\ downloaded.saved
    /\ Len(downloaded.pages) = 2
    /\ downloaded.pages[2].pageIndex = 1
    /\ downloaded.pages[2].rotation = 360
    /\ downloaded.pages[1].rotation = 0

C25_UnloadablePageIsSkipped ==
    [][exportPDFSettled(TRUE) =>
          LET kept == SelectSeq(exportOp.pages, LAMBDA p : p.sourcePdfId \notin Encrypted)
          IN  /\ downloaded'.saved
              /\ Len(downloaded'.pages) = Len(kept)
              /\ \A i \in 1..Len(kept) :
                    /\ downloaded'.pages[i].sourcePdfId = kept[i].sourcePdfId
                    /\ downloaded'.pages[i].pageIndex = kept[i].pageIndex
              /\ notice' = notice
      ]_vars

\* C26: when serializing the merged document fails, nothing is handed to download, a
\* notice is shown, the indicator is cleared, and the page list, the sources and the
\* selection are what they were when the export was called.
C26_FailedSaveDeliversNothing ==
    [][(exportPDFSettled(FALSE) /\ Loads(exportOp)) =>
          /\ downloaded' = downloaded
          /\ notice' = "error while saving"
          /\ ~isProcessing'
          /\ UNCHANGED <<pages, sources, selectedPageIds>>
          /\ pages = exportOp.pages /\ sources = exportOp.sources
      ]_vars

\* an export of two loadable pages failed and nothing has been downloaded
C26_Witness ==
    /\ notice = "error while saving"
    /\ downloaded = NoDocument
    /\ exportOp = NoExport
    /\ Len(pages) = 2 /\ \A i \in 1..Len(pages) : pages[i].sourcePdfId \notin Encrypted

-----------------------------------------------------------------------------
(* Ingestion: a file that fails *)

\* the files handed to processFiles whose loadPDF rejects
FailedFiles == {file \in Handed : file.kind = "bad"}

\* the ids of the pages a file holds
PageIdsOf(file) == {file.firstPageId + i - 1 : i \in 1..file.numPages}

\* list holds no page of file and srcs does not hold its source
Without(file, list, srcs) ==
    /\ file.sourceId \notin srcs
    /\ \A i \in 1..Len(list) :
          list[i].sourcePdfId # file.sourceId /\ list[i].id \notin PageIdsOf(file)

\* list starts with the pages of before, unchanged
StartsWith(list, before) ==
    /\ Len(before) <= Len(list)
    /\ \A i \in 1..Len(before) : list[i] = before[i]

\* C27: a file whose loading fails, even after some of its pages were rasterized, never
\* has a page in the list or its source in the registry, nor in what a call is about to
\* store; the step in which it fails adds nothing to what its call has collected and
\* leaves the selection alone; and what a call stores starts with the pages, and holds
\* the sources, it found when it was called, unchanged.
C27_FailedFileContributesNothing ==
    /\ [](\A file \in FailedFiles :
             /\ Without(file, pages, sources)
             /\ \A b \in 1..Len(batches) :
                   Without(file, batches[b].newPages, batches[b].newSources))
    /\ [][\A b \in 1..Len(batches) :
             (loadPDFSettled(b) /\ batches[b].files[batches[b].next].kind = "bad") =>
                /\ batches'[b].newPages = batches[b].newPages
                /\ batches'[b].newSources = batches[b].newSources
                /\ selectedPageIds' = selectedPageIds
                /\ \/ pages' = pages /\ sources' = sources
                   \/ pages' = batches[b].newPages /\ sources' = batches[b].newSources
         ]_vars
    /\ [][\A files \in DroppedFiles \cup PastedFiles \cup PickedFiles :
             \A isPaste \in BOOLEAN :
                processFiles(files, isPaste) =>
                   /\ batches'[Len(batches')].newPages = pages
                   /\ batches'[Len(batches')].newSources = sources
         ]_vars
    /\ [][\A b \in 1..Len(batches) :
             loadPDFSettled(b) =>
                /\ StartsWith(batches'[b].newPages, batches[b].newPages)
                /\ batches[b].newSources \subseteq batches'[b].newSources
         ]_vars

\* the batch with the failing file has completed: the page that was there before and the
\* pages of the two loadable files are in the list
C27_Witness ==
    /\ \E b \in 1..Len(batches) :
          batches[b].files = <<FileA, FileBad, FileB>> /\ batches[b].at = "done"
    /\ Len(pages) = 4
    /\ pages[1] = NewPage(1, 1, 0, <<Text1>>)
    /\ FileBad \in FailedFiles
    /\ sources = {1, FileA.sourceId, FileB.sourceId}

-----------------------------------------------------------------------------
(* The loading overlay *)

\* a page in the grid and a pasted PDF: opening the editor, copying and exporting, with
\* renders that resolve or reject
NextBusy ==
    \/ \E files \in PastedFiles : handlePaste(files)
    \/ \E b \in 1..Len(batches) : loadPDFSettled(b)
    \/ \E b \in 1..Len(batches) : renderHighResPageSettled(b)
    \/ \E b \in 1..Len(batches) : renderHighResPageFailed(b)
    \/ \E i \in 1..Len(pages) : openEditor(i)
    \/ openEditorDone
    \/ openEditorFailed
    \/ onClose
    \/ \E id \in Ids(pages) : toggleSelectPage(id)
    \/ copyToClipboard
    \/ \E ok \in BOOLEAN : copyRenderSettled(ok)
    \/ copyImgOnload
    \/ \E ok \in BOOLEAN : clipboardWriteSettled(ok)
    \/ exportPDF
    \/ \E saves \in BOOLEAN : exportPDFSettled(saves)

SpecBusy == InitLoad /\ [][NextBusy]_vars

\* an asynchronous operation has been started and has neither completed nor failed: a
\* processFiles call, an openEditor call, an export, or a copy up to the end of img.onload
InFlight ==
    \/ \E b \in 1..Len(batches) : batches[b].at # "done"
    \/ opening # NullPage
    \/ exportOp # NoExport
    \/ copyOp # NoCopy /\ copyOp.at \in {"renderHighResPage", "img.onload"}

\* C28: the loading overlay is shown exactly while an asynchronous operation is in flight:
\* shown while at least one has started and not yet completed or failed, and not shown
\* once all of them have completed or failed.
C28_IndicatorExactlyWhileInFlight == isProcessing <=> InFlight

-----------------------------------------------------------------------------
(* Ingestion: the descriptors of new pages *)

\* a dropped batch, whose pages are then selected, deleted and reordered
NextIds ==
    \/ \E files \in DroppedFiles : handleDropFile(files)
    \/ \E b \in 1..Len(batches) : loadPDFSettled(b)
    \/ \E id \in Ids(pages) : toggleSelectPage(id)
    \/ \E confirmed \in BOOLEAN : deleteSelected(confirmed)
    \/ \E index \in 1..Len(pages) : handlePageDragStart(index)
    \/ \E dropIndex \in 1..Len(pages) : handlePageDrop(dropIndex)

SpecIds == InitLoad /\ [][NextIds]_vars

\* the descriptors of the list, without the holes a drop with a stale index leaves
Descriptors == SelectSeq(pages, LAMBDA p : p # UndefinedPage)

\* C29: the descriptors loadPDF returns for a file have rotation 0, no annotations, the
\* 0-based position of the page in the file as pageIndex and pairwise distinct ids; the
\* pages a call adds to the list arrive like that, with ids the list did not hold;
\* in every state the ids of the pages of the list are pairwise distinct, and each page
\* names one registered source.
C29_FreshDescriptorsDistinctIds ==
    /\ [](\A file \in Handed :
             LET loaded == loadPDF(file)
             IN  loaded.ok =>
                    /\ \A i \in 1..Len(loaded.pages) :
                          /\ loaded.pages[i].rotation = 0
                          /\ loaded.pages[i].annotations = <<>>
                          /\ loaded.pages[i].pageIndex = i - 1
                          /\ loaded.pages[i].sourcePdfId = loaded.source
                    /\ \A i, j \in 1..Len(loaded.pages) :
                          loaded.pages[i].id = loaded.pages[j].id => i = j)
    /\ [][\A b \in 1..Len(batches) : Completes(b) =>
             \A i \in 1..Len(pages') :
                \A k \in 1..Len(batches[b].files) :
                   pages'[i].id \in PageIdsOf(batches[b].files[k]) =>
                      /\ pages'[i].rotation = 0
                      /\ pages'[i].annotations = <<>>
                      /\ pages'[i].pageIndex = pages'[i].id - batches[b].files[k].firstPageId
                      /\ pages'[i].sourcePdfId = batches[b].files[k].sourceId
                      /\ pages'[i].id \notin Ids(pages)
         ]_vars
    /\ [](\A i, j \in 1..Len(Descriptors) :
             Descriptors[i].id = Descriptors[j].id => i = j)
    /\ [](\A i \in 1..Len(Descriptors) : Descriptors[i].sourcePdfId \in sources)

\* the pages of the dropped batch are in the list, reordered
C29_Witness ==
    /\ Len(pages) = 4
    /\ \A b \in 1..Len(batches) : batches[b].at = "done"
    /\ Len(batches) = 1
    /\ pages[1].id # 1
    /\ Cardinality(Ids(pages)) = 4
    /\ Cardinality(sources) = 3

-----------------------------------------------------------------------------
(* The bytes of the sources *)

\* C30: every call that parses the bytes of a source is given a copy of them, never the
\* stored buffer itself.
C30_ParsersAreGivenCopies == \A h \in handed : h.copied

-----------------------------------------------------------------------------
(* Painting: the three targets *)

\* C31: the editor, the thumbnail and the export paint an annotation alike: with the
\* opacity the editor gives it (one constant for highlights) and in the box the editor's
\* normalization gives it.
C31_TargetsPaintAlike ==
    rendered # NoRender =>
        /\ rendered.alpha = EditorAlpha(rendered.of)
        /\ rendered.box = NormalizeBox(rendered.of)

-----------------------------------------------------------------------------
(* Selecting and the toolbar *)

\* C32: a pointer-down with the select tool on an annotation selects it and changes no
\* stored field of any annotation: the font sync that follows the selection writes the
\* annotation's own font size and weight back.
C32_SelectingChangesNoAnnotation ==
    [][(\E id \in Ids(annotations) : \E pos \in FontPoints :
            handleAnnotationMouseDown(id, pos) /\ tool = "select")
          => annotations' = annotations]_vars

-----------------------------------------------------------------------------
(* Edits of one annotation *)

\* sessions that move, resize, recolor and change the font of the annotations of an
\* earlier session
FramePoints == {Pos(100, 100), Pos(50, 60)}
FrameSwatches == {"#ef4444"}
FrameFontSizes == {24}

NextFrame ==
    \/ PointerStep(FramePoints, FramePoints, {NoText})
    \/ \E c \in FrameSwatches : applyColor(c)
    \/ \E v \in FrameFontSizes : changeFontSize(v)
    \/ toggleBold

SpecFrame == Init /\ [][NextFrame]_vars

\* the step changes at most the fields named in touched, of the selected annotation only:
\* the list keeps its length and order, every annotation its id and kind
OnlySelectedChanges(touched) ==
    /\ Len(annotations') = Len(annotations)
    /\ \A i \in 1..Len(annotations) :
          LET a == annotations[i]
              b == annotations'[i]
          IN  /\ b.id = a.id /\ b.type = a.type
              /\ a.id # selectedId => b = a
              /\ DOMAIN a \subseteq DOMAIN b
              /\ DOMAIN b \subseteq DOMAIN a \cup touched
              /\ \A f \in DOMAIN a \ touched : b[f] = a[f]

\* C33: a pointer-move of a move gesture changes only x and y of the selected annotation,
\* one of a resize gesture only x, y, width and height, apply-color only its color, a
\* font size or bold edit only its fontSize and fontWeight; the list keeps length and
\* order, every annotation its id and kind, and every other annotation is unchanged.
C33_EditsTouchOnlySelected ==
    [][ /\ (\E pos \in FramePoints : handleMouseMove(pos, FramePoints)) =>
              IF interactionMode = "moving" THEN OnlySelectedChanges({"x", "y"})
              ELSE OnlySelectedChanges({"x", "y", "width", "height"})
        /\ (\E c \in FrameSwatches : applyColor(c)) => OnlySelectedChanges({"color"})
        /\ (toggleBold \/ \E v \in FrameFontSizes : changeFontSize(v)) =>
              OnlySelectedChanges({"fontSize", "fontWeight"})
      ]_vars

\* the text was moved, recolored and set to another font size and weight, and the
\* highlight was resized; each kept its other fields
C33_Witness ==
    /\ BetweenGestures
    /\ Len(annotations) = 2
    /\ annotations[1] = Spread(Text1, [x |-> 100, y |-> 100, color |-> "#ef4444",
                                       fontSize |-> 24, fontWeight |-> "normal"])
    /\ annotations[2].id = Highlight2.id /\ annotations[2].color = Highlight2.color
    /\ annotations[2].width # Highlight2.width

-----------------------------------------------------------------------------
(* The image tool: edits while the file is read *)

\* sessions that pick an image and go on moving, selecting and deleting while it is read
UploadFiles == {[name |-> "wide.png", width |-> 300, height |-> 150]}

NextUpload ==
    \/ CanvasStep(ImagePoints, ImagePoints, {NoText})
    \/ \E t \in ImageToolButtons : setTool(t)
    \/ \E file \in UploadFiles : handleImageUpload(file)
    \/ imgOnload
    \/ \E id \in Ids(annotations) : deleteAnnotation(id)

SpecUpload == InitImage /\ [][NextUpload]_vars

\* C34: the completion of an image upload only adds: the list after it is the list just
\* before it, with the edits made while the file was read, followed by the new image.
C34_UploadCompletionOnlyAppends ==
    [][imgOnload =>
          /\ Len(annotations') = Len(annotations) + 1
          /\ SubSeq(annotations', 1, Len(annotations)) = annotations
          /\ Last(annotations').type = "image"
      ]_vars

-----------------------------------------------------------------------------
(* A paste while the editor is open *)

\* sessions on the only page, which holds one text; a file is pasted at any moment; the
\* select tool stays chosen and a held annotation stays where it is, so that the only edit
\* of a session is the deletion of an annotation
SessionPastedFiles == {<<FileC>>}
SessionPoints == {Pos(50, 60), Pos(100, 100)}

NextSession ==
    \/ \E i \in 1..Len(pages) : openEditor(i)
    \/ openEditorDone
    \/ \E files \in SessionPastedFiles : handlePaste(files)
    \/ \E b \in 1..Len(batches) : loadPDFSettled(b)
    \/ \E b \in 1..Len(batches) : renderHighResPageSettled(b)
    \/ CanvasStep(SessionPoints, {}, {NoText})
    \/ \E id \in Ids(annotations) : deleteAnnotation(id)
    \/ saveAnnotations
    \/ onClose

SpecSession == InitLoad /\ [][NextSession]_vars

\* C35: a save stores, on the page the session was opened on, that page's list with the
\* session's edits; the annotations of the page edited before a paste are never written
\* to the pasted page.  Where deleting is the only edit, a save therefore gives no page an
\* annotation the page did not hold before.
C35_SaveWritesTheSessionsPage ==
    [][saveAnnotations =>
          \A i \in 1..Len(pages) : Ids(pages'[i].annotations) \subseteq Ids(pages[i].annotations)
      ]_vars

-----------------------------------------------------------------------------
(* Drops with a remembered dragged index *)

\* C36: every page drop yields a permutation of the page list, none lost, duplicated or
\* replaced by an empty entry, with the page of the remembered dragged index at the drop
\* index; also when that index was remembered by a drag that ended without a drop and
\* pages were deleted since.
C36_DropPermutesPages ==
    [][ \A j \in 1..Len(pages) :
          handlePageDrop(j) =>
              /\ Len(pages') = Len(pages)
              /\ \A k \in 1..Len(pages) : \E i \in 1..Len(pages') : pages'[i] = pages[k]
              /\ \A i \in 1..Len(pages') : pages'[i] # UndefinedPage
      ]_vars

-----------------------------------------------------------------------------
(* The registry of sources *)

\* a picked image and a pasted PDF, ingested one during the other, pages deleted, the
\* document exported
NextRegistry ==
    \/ \E files \in PickedFiles : handleFileUpload(files)
    \/ \E files \in PastedFiles : handlePaste(files)
    \/ \E b \in 1..Len(batches) : loadPDFSettled(b)
    \/ \E b \in 1..Len(batches) : renderHighResPageSettled(b)
    \/ onClose
    \/ \E id \in Ids(pages) : toggleSelectPage(id)
    \/ \E confirmed \in BOOLEAN : deleteSelected(confirmed)
    \/ exportPDF
    \/ \E saves \in BOOLEAN : exportPDFSettled(saves)

SpecRegistry == InitLoad /\ [][NextRegistry]_vars

\* C37: every page descriptor of the list names a source of the registry, so that an
\* export, which works on the list and the registry of the moment it starts, leaves out no
\* listed page.
C37_PagesNameRegisteredSources ==
    /\ \A i \in 1..Len(Descriptors) : \E s \in sources : Descriptors[i].sourcePdfId = s
    /\ exportOp # NoExport => Sourced(exportOp.pages, exportOp.sources) = exportOp.pages

\* an export started after two ingestions that overlapped, with a page of a new source
C37_Witness ==
    /\ exportOp # NoExport
    /\ Len(batches) = 2 /\ \A b \in 1..2 : batches[b].at = "done"
    /\ Len(batches[1].newPages) = 2 /\ Len(batches[2].newPages) = 2
    /\ exportOp.pages = pages
    /\ \E i \in 1..Len(pages) : pages[i].sourcePdfId # 1

\* C38: the selected page ids are ids of pages of the list, so that a selection of one
\* page designates a page that copyToClipboard finds.
C38_SelectionNamesListedPages ==
    \A id \in selectedPageIds : \E i \in 1..Len(Descriptors) : Descriptors[i].id = id

-----------------------------------------------------------------------------
(* The selection of an editing session *)

\* C39: during an editing session the selected id is none or the id of an annotation of
\* the list, the ids of the annotations are pairwise distinct, and while the interaction
\* mode is moving or resizing the snapshot is the one of the selected annotation.
C39_SelectionAndSnapshotAgree ==
    Mounted =>
        /\ selectedId = NoId \/ \E i \in 1..Len(annotations) : annotations[i].id = selectedId
        /\ \A i, j \in 1..Len(annotations) : annotations[i].id = annotations[j].id => i = j
        /\ interactionMode \in {"moving", "resizing"} => initialAnnState.id = selectedId

====
